---- MODULE Spec2Model ----
(***************************************************************************)
(* Battery log store on SPI NAND flash (alengigijoseph/spi_flash).         *)
(*                                                                         *)
(* Two generations of the battery_fs component live in spiflash.c:         *)
(*   - the metadata-based sync engine (battery_fs_write_data with          *)
(*     battery_fs_identify_new_records and the .meta file), and            *)
(*   - the scan-based log store (battery_fs_write_bulk / read_bulk).       *)
(* Both keep one append-only data file per serial number, made of          *)
(*   index:u32-LE  length:u32-LE  payload                                  *)
(* tuples.  The model follows one serial number.                           *)
(***************************************************************************)
EXTENDS Integers, Sequences, FiniteSets, TLC

VARIABLES
    dataFile,   \* the serial's data file: [exists, bytes]
    metaFile,   \* the serial's metadata file: [state, meta]
    cycles,     \* number of calls made so far (also the clock read by time())
    faults,     \* number of injected I/O faults so far
    everAppended, \* complete records ever written to the data file
    fileLog,    \* the records written in full to the present data file, in order
    last,       \* the call that ran last: its input, outcome and pre-state
    prev,       \* summary of the call before it
    readOut,    \* result of the last battery_fs_read_bulk
    dev,        \* the NAND chip: pages, data buffer, status bits
    nand,       \* the driver call that ran last: arguments, bus traffic, result
    wait,       \* a running spiflash_wait_ready: position, tick counter, result
    fs,         \* g_fs_state and the resources battery_fs_init acquires
    smbus       \* the SMBUS_update loop: battery_state and its polls

storeVars == <<dataFile, metaFile, cycles, faults, everAppended, fileLog, last, prev, readOut>>
nandVars == <<dev, nand, wait, fs, smbus>>
vars == <<dataFile, metaFile, cycles, faults, everAppended, fileLog, last, prev, readOut,
          dev, nand, wait, fs, smbus>>

(***************************************************************************)
(* Bounds of the model.                                                    *)
(***************************************************************************)
MaxCycles == 3
MaxFaults == 1
MaxSnap == 2
MaxStored == 3
MaxPartial == 0
LowSpan == 1
HighSpan == 1
MaxPayloadLen == 1
MaxBulk == 2
MaxBulkCalls == 2
BulkSpan == 2
MaxReadCount == 4
ModelBlocks == 2
ModelPageSize == 2
MaxBusyPolls == 1
MaxTransactions == 10
WordMod == 16
SlowTickPeriod == 2
ShortTimeout == 3
MaxStall == 1
MaxLifecycleCalls == 4
TailLowSpan == 2
MaxNandCalls == 4
ModelBatmons == 2
MaxPollRounds == 3

(***************************************************************************)
(* Program constants.                                                      *)
(***************************************************************************)
WrapGuard == 256
CrcPolyHi == 60856
CrcPolyLo == 33568
HalfMask == 65535
HalfTop == 32768
SPIFLASH_PAGES_PER_BLOCK == 64
SPIFLASH_TOTAL_BLOCKS == 1024
SPIFLASH_STATUS_BUSY == 1
SPIFLASH_STATUS_WEL == 2
SPIFLASH_STATUS_PFAIL == 8
SPIFLASH_STATUS_EFAIL == 16
ErasedByte == 255
EstimatedEntryBytes == 85
IndexBufferSize == 4096

ESP_OK == "ESP_OK"
ESP_FAIL == "ESP_FAIL"
ESP_ERR_NOT_FOUND == "ESP_ERR_NOT_FOUND"
NoRet == "interrupted"

(***************************************************************************)
(* Input domains.                                                          *)
(***************************************************************************)
ByteVals == {65, 66}

RECURSIVE SeqsUpTo(_, _)
SeqsUpTo(S, n) ==
    IF n = 0 THEN {<<>>}
    ELSE LET shorter == SeqsUpTo(S, n - 1)
         IN  shorter \cup {Append(s, x) : s \in {t \in shorter : Len(t) = n - 1}, x \in S}

Payloads == SeqsUpTo(ByteVals, MaxPayloadLen)
NonEmptyPayloads == Payloads \ {<<>>}
Indices == (WrapGuard - LowSpan) .. (WrapGuard + HighSpan)

\* battery_log_t: memory_index, data, data_len (data_len is Len(data))
Logs == [memory_index : Indices, data : NonEmptyPayloads]
DistinctIndices(logs) ==
    \A i, j \in 1..Len(logs) : i /= j => logs[i].memory_index /= logs[j].memory_index

Snapshots == {s \in SeqsUpTo(Logs, MaxSnap) : s /= <<>> /\ DistinctIndices(s)}

(***************************************************************************)
(* CRC32.  A 32-bit word is kept as the pair <<high half, low half>> of    *)
(* 16-bit values, so that every bit of the checksum is computed.           *)
(***************************************************************************)
RECURSIVE Xor(_, _)
Xor(a, b) ==
    IF a = 0 THEN b
    ELSE IF b = 0 THEN a
    ELSE (((a % 2) + (b % 2)) % 2) + 2 * Xor(a \div 2, b \div 2)

Xor32(x, y) == << Xor(x[1], y[1]), Xor(x[2], y[2]) >>
Shr1(x) == << x[1] \div 2, (x[2] \div 2) + (x[1] % 2) * HalfTop >>
Not32(x) == << HalfMask - x[1], HalfMask - x[2] >>

\* crc = (crc >> 1) ^ (0xEDB88320 & -(crc & 1)), eight times
RECURSIVE CrcBits(_, _)
CrcBits(crc, j) ==
    IF j = 0 THEN crc
    ELSE CrcBits(IF crc[2] % 2 = 1 THEN Xor32(Shr1(crc), <<CrcPolyHi, CrcPolyLo>>)
                 ELSE Shr1(crc), j - 1)

RECURSIVE CrcBytes(_, _)
CrcBytes(crc, data) ==
    IF data = <<>> THEN crc
    ELSE CrcBytes(CrcBits(Xor32(crc, <<0, Head(data)>>), 8), Tail(data))

calculate_crc32(data) == Not32(CrcBytes(<<HalfMask, HalfMask>>, data))

Crc32Memo == [p \in Payloads |-> calculate_crc32(p)]

\* esp_crc32_le(0, data, len): the same CRC-32 (initial value and result inverted)
calculate_data_hash(data) == Crc32Memo[data]

(***************************************************************************)
(* On-disk record format.                                                  *)
(***************************************************************************)
LE32(n) == << n % 256, (n \div 256) % 256, (n \div 65536) % 256, (n \div 16777216) % 256 >>

FromLE32(b) == b[1] + 256 * b[2] + 65536 * b[3] + 16777216 * b[4]

Take(s, n) == SubSeq(s, 1, n)
Drop(s, n) == SubSeq(s, n + 1, Len(s))

IsPrefix(s, t) == Len(s) <= Len(t) /\ Take(t, Len(s)) = s


\* one record as written by the write loops: index, length, payload
EncodeRecord(index, data) == LE32(index) \o LE32(Len(data)) \o data

RECURSIVE EncodeLogs(_)
EncodeLogs(logs) ==
    IF logs = <<>> THEN <<>>
    ELSE EncodeRecord(Head(logs).memory_index, Head(logs).data) \o EncodeLogs(Tail(logs))

\* the scan of the readers: complete records only, stopping at the first
\* truncated header or payload
RECURSIVE ScanRecords(_)
ScanRecords(bytes) ==
    IF Len(bytes) < 8 THEN <<>>
    ELSE LET len == FromLE32(SubSeq(bytes, 5, 8))
         IN  IF Len(bytes) < 8 + len THEN <<>>
             ELSE << [memory_index |-> FromLE32(SubSeq(bytes, 1, 4)),
                      data |-> SubSeq(bytes, 9, 8 + len)] >>
                  \o ScanRecords(Drop(bytes, 8 + len))

StoredRecords(file) == IF file.exists THEN ScanRecords(file.bytes) ELSE <<>>

(***************************************************************************)
(* Metadata store.                                                         *)
(***************************************************************************)
ZeroMeta ==
    [last_memory_index |-> 0, record_count |-> 0, last_timestamp |-> 0,
     last_data_hash |-> <<0, 0>>]

NoMetaFile == [state |-> "absent", meta |-> ZeroMeta]

\* battery_fs_read_metadata: NOT_FOUND without a file, FAIL on a short read
battery_fs_read_metadata(mf, readFault) ==
    IF mf.state = "absent" THEN [ret |-> ESP_ERR_NOT_FOUND, meta |-> ZeroMeta]
    ELSE IF mf.state = "torn" \/ readFault THEN [ret |-> ESP_FAIL, meta |-> ZeroMeta]
    ELSE [ret |-> ESP_OK, meta |-> mf.meta]

\* battery_fs_write_metadata: fopen("wb") empties the file before fwrite
battery_fs_write_metadata(mf, meta, kind) ==
    IF kind = "meta_open" THEN [ret |-> ESP_FAIL, file |-> mf]
    ELSE IF kind = "meta_write" THEN [ret |-> ESP_FAIL, file |-> [state |-> "torn", meta |-> ZeroMeta]]
    ELSE [ret |-> ESP_OK, file |-> [state |-> "ok", meta |-> meta]]

(***************************************************************************)
(* battery_fs_identify_new_records                                         *)
(***************************************************************************)
MatchPositions(meta, logs) ==
    {i \in 1..Len(logs) : logs[i].memory_index = meta.last_memory_index}

Min(S) == CHOOSE x \in S : \A y \in S : x <= y

\* variant: every record but the stored index itself counts as new
IsAnyOther(meta, log) == log.memory_index /= meta.last_memory_index

\* variant: a record with the stored index itself counts as new
IsAfterOrEqual(meta, log) == log.memory_index >= meta.last_memory_index

IsAfter(meta, log) == log.memory_index > meta.last_memory_index

\* variant: the stored hash is never compared
identify_without_hash(meta, logs) ==
    IF meta.record_count = 0 THEN logs
    ELSE IF meta.last_memory_index >= WrapGuard THEN <<>>
    ELSE SelectSeq(logs, LAMBDA l : IsAfter(meta, l))

\* variant: the wraparound guard is never tested
identify_without_guard(meta, logs) ==
    IF meta.record_count = 0 THEN logs
    ELSE LET m == MatchPositions(meta, logs)
         IN  IF m /= {} /\ calculate_data_hash(logs[Min(m)].data) /= meta.last_data_hash
             THEN logs
             ELSE SelectSeq(logs, LAMBDA l : IsAfter(meta, l))

battery_fs_identify_new_records(meta, logs) ==
    IF meta.record_count = 0 THEN logs
    ELSE LET m == MatchPositions(meta, logs)
         IN  IF m /= {} /\ calculate_data_hash(logs[Min(m)].data) /= meta.last_data_hash
             THEN logs
             ELSE IF meta.last_memory_index >= WrapGuard THEN <<>>
             ELSE SelectSeq(logs, LAMBDA l : IsAfter(meta, l))

(***************************************************************************)
(* I/O faults.  A call runs with at most one fault armed: kind says which  *)
(* file operation fails; for a failing fwrite of the record loop, rec is   *)
(* the record, field the fwrite and k the bytes that still reached the     *)
(* file.  "power_loss" stops the call between fclose of the data file and  *)
(* the metadata write.                                                     *)
(***************************************************************************)
NoFault == [kind |-> "none", rec |-> 1, field |-> "index", k |-> 0]

SimpleFaults ==
    {[kind |-> kd, rec |-> 1, field |-> "index", k |-> 0] :
        kd \in {"meta_read", "data_open", "meta_open", "meta_write", "power_loss"}}

WriteFaults(maxRec) ==
    [kind : {"data_write"}, rec : 1..maxRec, field : {"index", "len", "data"},
     k : 0..MaxPartial]

FieldBytes(entry, field) ==
    IF field = "index" THEN LE32(entry.memory_index)
    ELSE IF field = "len" THEN LE32(Len(entry.data))
    ELSE entry.data

BytesBefore(entry, field) ==
    IF field = "index" THEN <<>>
    ELSE IF field = "len" THEN LE32(entry.memory_index)
    ELSE LE32(entry.memory_index) \o LE32(Len(entry.data))

\* does the armed fwrite fault hit this write loop?
HitsLoop(entries, fault) ==
    /\ fault.kind = "data_write"
    /\ fault.rec <= Len(entries)
    /\ fault.k < Len(FieldBytes(entries[fault.rec], fault.field))

\* the record loop: every entry written in full, or the entries before
\* fault.rec and the bytes of fault.rec that precede the failing fwrite
WriteLoop(entries, fault) ==
    IF HitsLoop(entries, fault)
    THEN [ok |-> FALSE, count |-> fault.rec - 1,
          bytes |-> EncodeLogs(Take(entries, fault.rec - 1))
                    \o BytesBefore(entries[fault.rec], fault.field)
                    \o Take(FieldBytes(entries[fault.rec], fault.field), fault.k)]
    ELSE [ok |-> TRUE, count |-> Len(entries), bytes |-> EncodeLogs(entries)]

(***************************************************************************)
(* battery_fs_write_data (metadata-based sync cycle)                       *)
(***************************************************************************)
\* variant: the last record of the snapshot instead of the highest index
LastPos(logs) == Len(logs)

\* variant: the position of the lowest memory_index of the snapshot
LowestPos(logs) ==
    Min({i \in 1..Len(logs) : \A j \in 1..Len(logs) :
            logs[i].memory_index <= logs[j].memory_index})

\* position of the first log holding the highest memory_index
HighestPos(logs) ==
    Min({i \in 1..Len(logs) : \A j \in 1..Len(logs) :
            logs[j].memory_index <= logs[i].memory_index})

\* fopen mode: "ab" when the file exists and its metadata was read, else "wb"
OpenBase(df, appendMode) == IF appendMode THEN df.bytes ELSE <<>>

NewRecordCount(appendMode, meta, write_count) ==
    IF appendMode THEN meta.record_count + write_count ELSE write_count

UpdatedMeta(appendMode, meta, logs, write_count, now) ==
    [last_memory_index |-> logs[HighestPos(logs)].memory_index,
     last_data_hash |-> calculate_data_hash(logs[HighestPos(logs)].data),
     record_count |-> NewRecordCount(appendMode, meta, write_count),
     last_timestamp |-> now]

\* return value once the record loop has completed
ReturnAfterMetadata(metaRet) == ESP_OK

\* variant: the metadata is written again with the time of the call
MetaRefreshed(mf, meta, now) ==
    battery_fs_write_metadata(mf, [meta EXCEPT !.last_timestamp = now], "none").file

\* write_count == 0: the call returns before the metadata file is opened
MetaWhenNothingNew(mf, meta, now) == mf

battery_fs_write_data(df, mf, logs, fault, now) ==
    LET rd == battery_fs_read_metadata(mf, fault.kind = "meta_read")
        appendMode == df.exists /\ rd.ret = ESP_OK
        readFired == fault.kind = "meta_read" /\ df.exists /\ mf.state = "ok"
        new_logs == IF appendMode THEN battery_fs_identify_new_records(rd.meta, logs)
                    ELSE logs
        stay == [data |-> df, meta |-> mf, written |-> <<>>, appendMode |-> appendMode,
                 metaRead |-> rd.ret, new_logs |-> new_logs, opened |-> FALSE]
    IN  IF appendMode /\ new_logs = <<>>
        THEN [stay EXCEPT !.meta = MetaWhenNothingNew(mf, rd.meta, now)]
             @@ [ret |-> ESP_OK, fired |-> FALSE]
        ELSE IF fault.kind = "data_open"
        THEN stay @@ [ret |-> ESP_FAIL, fired |-> TRUE]
        ELSE
          LET w == WriteLoop(new_logs, fault)
              file == [exists |-> TRUE, bytes |-> OpenBase(df, appendMode) \o w.bytes]
              wrote == [data |-> file, written |-> Take(new_logs, w.count),
                        appendMode |-> appendMode, metaRead |-> rd.ret,
                        new_logs |-> new_logs, opened |-> TRUE]
          IN  IF ~w.ok
              THEN wrote @@ [meta |-> mf, ret |-> ESP_FAIL, fired |-> TRUE]
              ELSE IF fault.kind = "power_loss"
              THEN wrote @@ [meta |-> mf, ret |-> NoRet, fired |-> TRUE]
              ELSE
                LET wm == battery_fs_write_metadata(mf,
                              UpdatedMeta(appendMode, rd.meta, logs, Len(new_logs), now),
                              fault.kind)
                IN  wrote @@ [meta |-> wm.file, ret |-> ReturnAfterMetadata(wm.ret),
                              fired |-> readFired \/ wm.ret /= ESP_OK]

(***************************************************************************)
(* State machine of the sync engine.                                       *)
(***************************************************************************)
NoCall ==
    [op |-> "none", logs |-> <<>>, fault |-> "none", ret |-> ESP_OK,
     preData |-> [exists |-> FALSE, bytes |-> <<>>], preMeta |-> NoMetaFile,
     written |-> <<>>, appendMode |-> FALSE, metaRead |-> ESP_ERR_NOT_FOUND,
     new_logs |-> <<>>]

NoRead == [ret |-> "none", entries |-> <<>>, max_count |-> 0]

(***************************************************************************)
(* The NAND chip as the driver sees it.                                    *)
(***************************************************************************)
DevicePages == 0 .. (ModelBlocks * SPIFLASH_PAGES_PER_BLOCK - 1)
ErasedPage == [i \in 1..ModelPageSize |-> ErasedByte]

\* busy: status polls the chip still answers "busy" (StuckBusy: for ever)
IdleDevice ==
    [pages |-> [p \in DevicePages |-> ErasedPage], buffer |-> ErasedPage,
     busy |-> 0, wel |-> FALSE, pfail |-> FALSE, efail |-> FALSE]

\* what the caller knows of a page: nothing, that its block was erased, or
\* the one pattern programmed into it since the erase
Unknown == [st |-> "unknown", data |-> <<>>]
Erased == [st |-> "erased", data |-> <<>>]
Written(data) == [st |-> "written", data |-> data]

NoNandCall ==
    [op |-> "none", arg |-> 0, data |-> <<>>, ret |-> ESP_OK, bus |-> <<>>,
     out |-> <<>>, pre |-> IdleDevice, args |-> "valid",
     known |-> [p \in DevicePages |-> Unknown],
     knownBefore |-> [p \in DevicePages |-> Unknown]]

\* no spiflash_wait_ready is running
NoWait ==
    [pc |-> "idle", timeout_ms |-> 0, period |-> 1, start |-> 0, tick |-> 0,
     elapsed |-> 0, sinceStep |-> 0, delayLeft |-> 0, busyLeft |-> 0,
     stuck |-> FALSE, lineFails |-> FALSE, readRet |-> "none", status |-> 0,
     ret |-> "none",
     lastPass |-> -1, prevCheck |-> 0]

\* the BATMON devices polled: indices 0 .. NO_BATMON-1, fewer in the model
Batmons == 0 .. (ModelBatmons - 1)

\* battery_state after init_batmon_devices (DataAcquisition.c 78): every
\* device disconnected; no poll made, get_battery_log never called
NoPolls ==
    [i |-> 0, round |-> 0,
     is_connected |-> [d \in Batmons |-> FALSE],
     log_calls |-> [d \in Batmons |-> 0],
     outcomes |-> [d \in Batmons |-> <<>>]]

\* g_fs_state = {0}; nothing acquired, no call yet; mounts counts the
\* successful calls of esp_vfs_fat_nand_mount
NoFs ==
    [initialized |-> FALSE, bus |-> FALSE, spi_handle |-> FALSE,
     flash_handle |-> FALSE, mounted |-> FALSE,
     op |-> "none", ret |-> ESP_OK, failAt |-> 0, wasInitialized |-> FALSE,
     mounts |-> 0, mountsBefore |-> 0, history |-> <<>>]

Init ==
    /\ dataFile = [exists |-> FALSE, bytes |-> <<>>]
    /\ metaFile = NoMetaFile
    /\ cycles = 0
    /\ faults = 0
    /\ everAppended = 0
    /\ fileLog = <<>>
    /\ last = NoCall
    /\ prev = NoCall
    /\ readOut = NoRead
    /\ dev = IdleDevice
    /\ nand = NoNandCall
    /\ wait = NoWait
    /\ fs = NoFs
    /\ smbus = NoPolls

WriteData(logs, fault) ==
    /\ cycles < MaxCycles
    /\ fault.kind /= "none" => faults < MaxFaults
    /\ LET r == battery_fs_write_data(dataFile, metaFile, logs, fault, cycles + 1)
       IN  /\ fault.kind /= "none" => r.fired
           /\ Len(StoredRecords(r.data)) <= MaxStored
           /\ dataFile' = r.data
           /\ metaFile' = r.meta
           /\ everAppended' = everAppended + Len(r.written)
           /\ fileLog' = IF r.opened
                          THEN (IF r.appendMode THEN fileLog ELSE <<>>) \o r.written
                          ELSE fileLog
           /\ last' = [op |-> "write_data", logs |-> logs, fault |-> fault.kind,
                       ret |-> r.ret, preData |-> dataFile, preMeta |-> metaFile,
                       written |-> r.written, appendMode |-> r.appendMode,
                       metaRead |-> r.metaRead, new_logs |-> r.new_logs]
           /\ prev' = last
    /\ cycles' = cycles + 1
    /\ faults' = faults + (IF fault.kind = "none" THEN 0 ELSE 1)
    /\ UNCHANGED <<readOut, nandVars>>

SyncCycle == \E logs \in Snapshots : WriteData(logs, NoFault)

FaultyCycle ==
    \E logs \in Snapshots : \E fault \in SimpleFaults \cup WriteFaults(MaxSnap) :
        WriteData(logs, fault)

Next == SyncCycle \/ FaultyCycle

Spec == Init /\ [][Next]_vars

(***************************************************************************)
(* Properties of the sync engine (battery_fs_write_data).                  *)
(***************************************************************************)
LastIsSync == last.op = "write_data"
PreRecords == StoredRecords(last.preData)
PostRecords == StoredRecords(dataFile)
Elems(s) == {s[i] : i \in 1..Len(s)}
PreMeta == last.preMeta.meta

\* the snapshot holds the stored tail index, with the stored / another hash
TailMatches ==
    \E i \in 1..Len(last.logs) :
        /\ last.logs[i].memory_index = PreMeta.last_memory_index
        /\ calculate_data_hash(last.logs[i].data) = PreMeta.last_data_hash
TailDiffers ==
    \E i \in 1..Len(last.logs) :
        /\ last.logs[i].memory_index = PreMeta.last_memory_index
        /\ calculate_data_hash(last.logs[i].data) /= PreMeta.last_data_hash

\* the cycle ran on a stored log whose metadata it read, without any fault
CleanCycleOnStored ==
    /\ LastIsSync
    /\ last.fault = "none"
    /\ last.preData.exists
    /\ last.preMeta.state = "ok"

\* C1: the records stored before a sync cycle are a prefix of the records
\* stored after it (the log is append-only), whatever fails in the cycle.
C1_AppendOnly == LastIsSync => IsPrefix(PreRecords, PostRecords)

\* C2: when a cycle was cut short after appending its records and before
\* persisting the metadata, the next cycle with the same snapshot loses no
\* stored record and appends no record that is already stored.
C2_RetryAfterInterrupt ==
    ( /\ LastIsSync
      /\ prev.op = "write_data"
      /\ prev.fault \in {"power_loss", "meta_open", "meta_write"}
      /\ last.logs = prev.logs
      /\ last.fault = "none"
      /\ ~TailDiffers )
    => /\ IsPrefix(PreRecords, PostRecords)
       /\ \A n \in (Len(PreRecords) + 1)..Len(PostRecords) :
             PostRecords[n] \notin Elems(PreRecords)

\* C3: a second sync cycle with the same snapshot, run on the metadata the
\* first cycle left, appends nothing and leaves the data file as it was.
RepeatedCycle ==
    /\ LastIsSync
    /\ prev.op = "write_data"
    /\ last.logs = prev.logs
    /\ prev.ret = ESP_OK
    /\ prev.fault \in {"none", "meta_read"}
    /\ last.fault = "none"
C3_IdempotentSync ==
    RepeatedCycle => last.written = <<>> /\ dataFile = last.preData
C3_Witness ==
    RepeatedCycle /\ prev.written /= <<>> /\ last.preData.exists /\ last.written = <<>>

\* C4: after a cycle that returns ESP_OK, the persisted record_count is the
\* number of records ever appended to the data file.
C4_RecordCountIsTotal ==
    (LastIsSync /\ last.ret = ESP_OK /\ last.fault = "none")
    => metaFile.state = "ok" /\ metaFile.meta.record_count = everAppended

\* C5: after a cycle that returns ESP_OK, metadata is persisted and the
\* latest stored record with index last_memory_index hashes to last_data_hash.
TailPositions ==
    {n \in 1..Len(PostRecords) :
        PostRecords[n].memory_index = metaFile.meta.last_memory_index}
Max(S) == CHOOSE x \in S : \A y \in S : y <= x
C5_MetadataDescribesLog ==
    (LastIsSync /\ last.ret = ESP_OK)
    => /\ metaFile.state = "ok"
       /\ TailPositions /= {}
       /\ calculate_data_hash(PostRecords[Max(TailPositions)].data)
            = metaFile.meta.last_data_hash

\* C6: the persisted record_count never decreases over a sync cycle.
C6_MonotonicCount ==
    (LastIsSync /\ last.preMeta.state = "ok" /\ metaFile.state = "ok")
    => metaFile.meta.record_count >= PreMeta.record_count

\* C7: a first-ever sync (nothing stored) appends the whole snapshot in
\* snapshot order and persists last_memory_index = highest index of the
\* snapshot, record_count = N and last_data_hash = hash of that record.
FirstEverSync ==
    /\ LastIsSync
    /\ last.fault = "none"
    /\ ~last.preData.exists
    /\ last.preMeta.state = "absent"
C7_FirstSync ==
    FirstEverSync =>
        /\ last.ret = ESP_OK
        /\ last.written = last.logs
        /\ dataFile = [exists |-> TRUE, bytes |-> EncodeLogs(last.logs)]
        /\ PostRecords = last.logs
        /\ metaFile.state = "ok"
        /\ metaFile.meta.record_count = Len(last.logs)
        /\ \E i \in 1..Len(last.logs) :
              /\ \A j \in 1..Len(last.logs) :
                    last.logs[j].memory_index <= last.logs[i].memory_index
              /\ metaFile.meta.last_memory_index = last.logs[i].memory_index
              /\ metaFile.meta.last_data_hash = calculate_crc32(last.logs[i].data)
C7_Witness ==
    /\ FirstEverSync
    /\ Len(last.logs) = 2
    /\ last.logs[1].memory_index > last.logs[2].memory_index
    /\ metaFile.meta.last_memory_index = last.logs[1].memory_index

\* C8: when the snapshot holds the stored tail index with the stored hash,
\* the cycle appends exactly the snapshot records with a higher index and
\* record_count grows by their number.
HigherLogs == SelectSeq(last.logs, LAMBDA l : l.memory_index > PreMeta.last_memory_index)
C8_HashMatch ==
    (CleanCycleOnStored /\ TailMatches)
    => /\ last.written = HigherLogs
       /\ dataFile.bytes = last.preData.bytes \o EncodeLogs(HigherLogs)
       /\ metaFile.meta.record_count = PreMeta.record_count + Len(HigherLogs)

\* C9: when the snapshot holds the stored tail index with another hash, the
\* cycle appends the whole snapshot in snapshot order and record_count grows
\* by the snapshot size.
C9_HashMismatch ==
    (CleanCycleOnStored /\ TailDiffers)
    => /\ last.ret = ESP_OK
       /\ last.written = last.logs
       /\ dataFile.bytes = last.preData.bytes \o EncodeLogs(last.logs)
       /\ metaFile.state = "ok"
       /\ metaFile.meta.record_count = PreMeta.record_count + Len(last.logs)
C9_Witness ==
    /\ CleanCycleOnStored
    /\ TailDiffers
    /\ Len(last.logs) = 2
    /\ last.written = last.logs
    /\ PreMeta.last_memory_index >= WrapGuard

(***************************************************************************)
(* Sync cycles over a wider range of indices below the wraparound guard,   *)
(* for the cases in which the stored tail index is not in the snapshot.    *)
(***************************************************************************)
TailIndices == (WrapGuard - TailLowSpan) .. (WrapGuard + HighSpan)
TailLogs == [memory_index : TailIndices, data : {<<Min(ByteVals)>>}]
TailSnapshots == {s \in SeqsUpTo(TailLogs, MaxSnap) : s /= <<>> /\ DistinctIndices(s)}

TailCycle == \E logs \in TailSnapshots : WriteData(logs, NoFault)

NextTail == TailCycle

SpecTail == Init /\ [][NextTail]_vars

\* no record of the snapshot has the stored tail index
TailAbsent ==
    \A i \in 1..Len(last.logs) : last.logs[i].memory_index /= PreMeta.last_memory_index

\* C25: when no snapshot record has the stored last_memory_index and that
\* index is below the guard (256), the cycle appends exactly the snapshot
\* records with a higher index, in snapshot order.
C25_TailAbsentBelowGuard ==
    (CleanCycleOnStored /\ TailAbsent /\ PreMeta.last_memory_index < WrapGuard)
    => /\ last.ret = ESP_OK
       /\ last.written = HigherLogs
       /\ dataFile.bytes = last.preData.bytes \o EncodeLogs(HigherLogs)
C25_Witness ==
    /\ CleanCycleOnStored /\ TailAbsent /\ PreMeta.last_memory_index < WrapGuard
    /\ Len(last.logs) = 2
    /\ last.logs[1].memory_index < PreMeta.last_memory_index
    /\ last.logs[2].memory_index > PreMeta.last_memory_index
    /\ last.written = <<last.logs[2]>>

\* C26: when no snapshot record has the stored last_memory_index and that
\* index is at or above the guard, the cycle appends no record and returns
\* success.
C26_TailAbsentAtGuard ==
    (CleanCycleOnStored /\ TailAbsent /\ PreMeta.last_memory_index >= WrapGuard)
    => /\ last.ret = ESP_OK
       /\ last.written = <<>>
       /\ dataFile = last.preData
C26_Witness ==
    /\ CleanCycleOnStored /\ TailAbsent /\ PreMeta.last_memory_index >= WrapGuard
    /\ \E i \in 1..Len(last.logs) : last.logs[i].memory_index > PreMeta.last_memory_index
    /\ last.ret = ESP_OK
    /\ dataFile = last.preData

\* the metadata a successful cycle is to leave: the highest index of the
\* snapshot, the hash of its payload, the count grown by the records appended
MetadataFollowsSnapshot ==
    /\ metaFile.state = "ok"
    /\ \E i \in 1..Len(last.logs) :
          /\ \A j \in 1..Len(last.logs) :
                last.logs[j].memory_index <= last.logs[i].memory_index
          /\ metaFile.meta.last_memory_index = last.logs[i].memory_index
          /\ metaFile.meta.last_data_hash = calculate_crc32(last.logs[i].data)
    /\ metaFile.meta.record_count =
          (IF last.preMeta.state = "ok" THEN PreMeta.record_count ELSE 0)
          + Len(last.written)

\* C27: after every successful sync cycle, also one that appended nothing,
\* the persisted metadata has last_memory_index = highest index of the
\* snapshot, last_data_hash = hash of that record's payload and
\* record_count = previous record_count + records appended.
C27_MetadataAfterCycle ==
    (LastIsSync /\ last.fault = "none" /\ last.ret = ESP_OK) => MetadataFollowsSnapshot

\* C27 for the cycles that appended at least one record
C27_WhenAppended ==
    (LastIsSync /\ last.fault = "none" /\ last.ret = ESP_OK /\ last.written /= <<>>)
        => MetadataFollowsSnapshot

\* a cycle in which battery_fs_identify_new_records found nothing to write
NothingNew == LastIsSync /\ last.appendMode /\ last.new_logs = <<>>

\* C35: a battery_fs_write_data cycle in which
\* battery_fs_identify_new_records finds zero new records returns ESP_OK and
\* leaves the data file and the metadata file unchanged (no metadata write,
\* no timestamp refresh).
C35_NothingNewChangesNothing ==
    NothingNew =>
        /\ last.ret = ESP_OK
        /\ dataFile = last.preData
        /\ metaFile = last.preMeta

\* such a cycle, later than the one that wrote the metadata, with another
\* snapshot than the cycle before
C35_Witness ==
    /\ NothingNew
    /\ last.preMeta.state = "ok"
    /\ last.preMeta.meta.last_timestamp < cycles
    /\ last.logs /= prev.logs
    /\ metaFile = last.preMeta

\* the cycle started with persisted metadata whose last_memory_index is at
\* or above the guard
AboveGuard ==
    /\ LastIsSync
    /\ last.preMeta.state = "ok"
    /\ PreMeta.last_memory_index >= WrapGuard

Unchanged == last.written = <<>> /\ dataFile = last.preData /\ metaFile = last.preMeta

\* C36: once the persisted last_memory_index is >= 256, a
\* battery_fs_write_data cycle appends records only if the snapshot holds a
\* record with that index and another payload hash; in every other cycle
\* nothing is appended and the log and the metadata stay the same.
C36_FrozenAboveGuard == (AboveGuard /\ ~TailDiffers) => Unchanged

\* C36 for the cycles that read the metadata
C36_WhenMetadataRead ==
    (AboveGuard /\ ~TailDiffers /\ last.metaRead = ESP_OK) => Unchanged

\* C37: over the battery_fs_write_data cycles in which the metadata is read
\* successfully, the persisted last_memory_index never decreases: a cycle
\* leaves it unchanged or sets it to a value at least as high.
C37_IndexNeverDecreases ==
    (LastIsSync /\ last.metaRead = ESP_OK /\ metaFile.state = "ok")
        => metaFile.meta.last_memory_index >= PreMeta.last_memory_index

\* a cycle that found another payload at the stored index and appended the
\* whole snapshot, lower indices included, keeping the stored index
C37_Witness ==
    /\ LastIsSync /\ last.metaRead = ESP_OK /\ metaFile.state = "ok"
    /\ TailDiffers
    /\ \E i \in 1..Len(last.written) :
           last.written[i].memory_index < PreMeta.last_memory_index
    /\ metaFile.meta.last_memory_index = PreMeta.last_memory_index
    /\ metaFile /= last.preMeta

(***************************************************************************)
(* battery_fs_delete_battery (spiflash.c 1645-1688).                       *)
(***************************************************************************)
\* remove(path): fails with ENOENT without a file, fails with another errno
\* when `refused`, else removes the file
RemoveSucceeds(present, refused) == present /\ ~refused

battery_fs_delete_battery(df, mf, fault) ==
    LET data_deleted == RemoveSucceeds(df.exists, fault = "data_remove")
        meta_deleted == RemoveSucceeds(mf.state /= "absent", fault = "meta_remove")
    IN  [data |-> IF data_deleted THEN [exists |-> FALSE, bytes |-> <<>>] ELSE df,
         meta |-> IF meta_deleted THEN NoMetaFile ELSE mf,
         data_deleted |-> data_deleted, meta_deleted |-> meta_deleted,
         ret |-> IF ~data_deleted /\ ~meta_deleted THEN ESP_ERR_NOT_FOUND ELSE ESP_OK,
         fired |-> \/ fault = "data_remove" /\ df.exists
                   \/ fault = "meta_remove" /\ mf.state /= "absent"]

\* battery_fs_exists: stat of the data file
battery_fs_exists(df) == df.exists

DeleteStep(fault) ==
    /\ cycles < MaxCycles
    /\ fault /= "none" => faults < MaxFaults
    /\ LET r == battery_fs_delete_battery(dataFile, metaFile, fault)
       IN  /\ fault /= "none" => r.fired
           /\ dataFile' = r.data
           /\ metaFile' = r.meta
           /\ fileLog' = IF r.data_deleted THEN <<>> ELSE fileLog
           /\ last' = [NoCall EXCEPT !.op = "delete_battery", !.fault = fault,
                                     !.ret = r.ret, !.preData = dataFile,
                                     !.preMeta = metaFile]
           /\ prev' = last
    /\ cycles' = cycles + 1
    /\ faults' = faults + (IF fault = "none" THEN 0 ELSE 1)
    /\ UNCHANGED <<everAppended, readOut, nandVars>>

DeleteBattery == DeleteStep("none")

DeleteBatteryFault == \E fault \in {"data_remove", "meta_remove"} : DeleteStep(fault)

NextDelete == SyncCycle \/ FaultyCycle \/ DeleteBattery \/ DeleteBatteryFault

SpecDelete == Init /\ [][NextDelete]_vars

LastIsDelete == last.op = "delete_battery"

\* a file of the serial that the call removed
DataRemoved == last.preData.exists /\ ~dataFile.exists
MetaRemoved == last.preMeta.state /= "absent" /\ metaFile.state = "absent"

\* a sync cycle that ran right after a delete that returned ESP_OK
SyncAfterDelete ==
    /\ LastIsSync /\ last.fault = "none"
    /\ prev.op = "delete_battery" /\ prev.ret = ESP_OK

\* the cycle behaved as a first-ever sync
AsFirstEverSync ==
    /\ last.ret = ESP_OK
    /\ last.written = last.logs
    /\ dataFile = [exists |-> TRUE, bytes |-> EncodeLogs(last.logs)]
    /\ metaFile.state = "ok"
    /\ metaFile.meta.record_count = Len(last.logs)

\* C24: battery_fs_delete_battery returns ESP_ERR_NOT_FOUND exactly when it
\* removed neither file; after it returns ESP_OK battery_fs_exists is false
\* and the next battery_fs_write_data behaves as a first-ever sync.
C24_DeleteThenFirstSync ==
    /\ LastIsDelete =>
          /\ last.ret \in {ESP_OK, ESP_ERR_NOT_FOUND}
          /\ last.ret = ESP_ERR_NOT_FOUND <=> (~DataRemoved /\ ~MetaRemoved)
          /\ last.ret = ESP_OK => ~battery_fs_exists(dataFile)
    /\ SyncAfterDelete => AsFirstEverSync

\* C24 when no remove is refused
C24_WithoutRemoveFault ==
    /\ (LastIsDelete /\ last.fault = "none") =>
          /\ last.ret = ESP_ERR_NOT_FOUND <=> (~DataRemoved /\ ~MetaRemoved)
          /\ last.ret = ESP_OK => ~battery_fs_exists(dataFile)
    /\ SyncAfterDelete => AsFirstEverSync

\* a file operation of the cycle failed: opening the data file, writing a
\* record, or opening or writing the metadata file
FileOperationFailed ==
    LastIsSync /\ last.fault \in {"data_open", "data_write", "meta_open", "meta_write"}

\* C21: battery_fs_write_data returns a non-OK result whenever a file
\* operation of the cycle fails, whether opening the data file, writing a
\* record, or writing the metadata.
C21_ErrorsReachCaller == FileOperationFailed => last.ret /= ESP_OK

\* C21 for the data file alone: a failed open or record write is returned
C21_DataFileErrors ==
    (LastIsSync /\ last.fault \in {"data_open", "data_write"}) => last.ret = ESP_FAIL

(***************************************************************************)
(* Scan-based log store: battery_fs_write_data (one entry),                *)
(* battery_fs_write_bulk and battery_fs_read_bulk.                         *)
(***************************************************************************)
LogNumbers == 1..BulkSpan

\* battery_data_t: log_number, binary_data (NULL when is_null), data_len
BulkEntries ==
    [log_number : LogNumbers, is_null : {FALSE}, binary_data : Payloads]
    \cup [log_number : {1}, is_null : {TRUE}, binary_data : {<<>>}]
BulkArrays == SeqsUpTo(BulkEntries, MaxBulk) \ {<<>>}

AsRecord(e) == [memory_index |-> e.log_number, data |-> e.binary_data]

\* the loop of battery_fs_write_bulk from entry i on: a NULL entry is
\* skipped, a failing fwrite ends the loop
RECURSIVE BulkLoop(_, _, _)
BulkLoop(entries, i, fault) ==
    IF i > Len(entries) THEN [bytes |-> <<>>, records |-> <<>>, hit |-> FALSE]
    ELSE IF entries[i].is_null THEN BulkLoop(entries, i + 1, fault)
    ELSE IF /\ fault.kind = "data_write"
            /\ fault.rec = i
            /\ fault.k < Len(FieldBytes(AsRecord(entries[i]), fault.field))
    THEN [bytes |-> BytesBefore(AsRecord(entries[i]), fault.field)
                    \o Take(FieldBytes(AsRecord(entries[i]), fault.field), fault.k),
          records |-> <<>>, hit |-> TRUE]
    ELSE LET rest == BulkLoop(entries, i + 1, fault)
         IN  [bytes |-> EncodeRecord(entries[i].log_number, entries[i].binary_data)
                        \o rest.bytes,
              records |-> <<AsRecord(entries[i])>> \o rest.records,
              hit |-> rest.hit]

\* variant: success whatever the number of entries written
BulkReturnAlways(written_count, count) == ESP_OK

BulkReturn(written_count, count) == IF written_count = count THEN ESP_OK ELSE ESP_FAIL

\* fopen mode "a" when the file exists, else "w"
battery_fs_write_bulk(df, entries, fault) ==
    IF fault.kind = "data_open"
    THEN [data |-> df, ret |-> ESP_FAIL, written |-> <<>>, fired |-> TRUE]
    ELSE LET w == BulkLoop(entries, 1, fault)
         IN  [data |-> [exists |-> TRUE,
                        bytes |-> (IF df.exists THEN df.bytes ELSE <<>>) \o w.bytes],
              ret |-> BulkReturn(Len(w.records), Len(entries)),
              written |-> w.records,
              fired |-> w.hit]

\* the single-entry battery_fs_write_data of the scan-based store
battery_fs_write_one(df, entry, fault) ==
    battery_fs_write_bulk(df, <<entry>>, fault)

\* malloc(data_len): a zero-size request may yield NULL, which the reader
\* takes for an allocation failure
MallocFails(len, zeroIsNull) == len = 0 /\ zeroIsNull

\* the loop of battery_fs_read_bulk: at most n entries
RECURSIVE ReadLoop(_, _, _)
ReadLoop(bytes, n, zeroIsNull) ==
    IF n = 0 \/ Len(bytes) < 8 THEN <<>>
    ELSE LET len == FromLE32(SubSeq(bytes, 5, 8))
         IN  IF MallocFails(len, zeroIsNull) \/ Len(bytes) < 8 + len THEN <<>>
             ELSE << [memory_index |-> FromLE32(SubSeq(bytes, 1, 4)),
                      data |-> SubSeq(bytes, 9, 8 + len)] >>
                  \o ReadLoop(Drop(bytes, 8 + len), n - 1, zeroIsNull)

battery_fs_read_bulk(df, max_count, zeroIsNull) ==
    IF ~df.exists THEN [ret |-> ESP_ERR_NOT_FOUND, entries |-> <<>>, max_count |-> max_count]
    ELSE [ret |-> ESP_OK, entries |-> ReadLoop(df.bytes, max_count, zeroIsNull),
          max_count |-> max_count]

\* fseek(f, data_len, SEEK_CUR): the position moves past the payload whether
\* or not the file holds that many bytes; the call does not fail
SeekPast(bytes, n) == IF n >= Len(bytes) THEN <<>> ELSE Drop(bytes, n)

\* the header scan shared by battery_fs_get_last_log and
\* battery_fs_get_entry_count: the log numbers of the entries it counts
RECURSIVE ScanHeaders(_)
ScanHeaders(bytes) ==
    IF Len(bytes) < 8 THEN <<>>
    ELSE << FromLE32(SubSeq(bytes, 1, 4)) >>
         \o ScanHeaders(SeekPast(bytes, 8 + FromLE32(SubSeq(bytes, 5, 8))))

battery_fs_get_last_log(df) ==
    IF ~df.exists THEN [ret |-> ESP_ERR_NOT_FOUND, last_log |-> 0]
    ELSE LET h == ScanHeaders(df.bytes)
         IN  IF h = <<>> THEN [ret |-> ESP_ERR_NOT_FOUND, last_log |-> 0]
             ELSE [ret |-> ESP_OK, last_log |-> h[Len(h)]]

battery_fs_get_entry_count(df) ==
    IF ~df.exists THEN [ret |-> ESP_ERR_NOT_FOUND, count |-> 0]
    ELSE [ret |-> ESP_OK, count |-> Len(ScanHeaders(df.bytes))]

\* the loop of battery_fs_read_data: the callback returns true for the
\* first `more` entries it is given and false for the next one
RECURSIVE CallbackLoop(_, _)
CallbackLoop(bytes, more) ==
    IF Len(bytes) < 8 THEN <<>>
    ELSE LET len == FromLE32(SubSeq(bytes, 5, 8))
         IN  IF Len(bytes) < 8 + len THEN <<>>
             ELSE << [memory_index |-> FromLE32(SubSeq(bytes, 1, 4)),
                      data |-> SubSeq(bytes, 9, 8 + len)] >>
                  \o (IF more = 0 THEN <<>>
                      ELSE CallbackLoop(Drop(bytes, 8 + len), more - 1))

battery_fs_read_data(df, more) ==
    IF ~df.exists THEN [ret |-> ESP_ERR_NOT_FOUND, entries |-> <<>>, more |-> more]
    ELSE [ret |-> ESP_OK, entries |-> CallbackLoop(df.bytes, more), more |-> more]

\* entry_index_t slots of flash_index after calloc
EmptyIndex(count) ==
    [j \in 0 .. (count - 1) |-> [log_number |-> 0, hash |-> <<0, 0>>, valid |-> FALSE]]

\* the CRC-32 of a payload, looked up when the payload is a modelled one
HashOf(data) == IF data \in Payloads THEN Crc32Memo[data] ELSE calculate_crc32(data)

\* the index loop of battery_fs_sync_from_ring from the seek position on:
\* a short header, a data_len of 0 or above the buffer, or a short payload
\* ends it; entry write_idx goes to slot write_idx % count
RECURSIVE IndexLoop(_, _, _, _)
IndexLoop(bytes, write_idx, flash_index, count) ==
    IF Len(bytes) < 8 THEN [flash_index |-> flash_index, write_idx |-> write_idx]
    ELSE LET log_num == FromLE32(SubSeq(bytes, 1, 4))
             data_len == FromLE32(SubSeq(bytes, 5, 8))
         IN  IF data_len > 0 /\ data_len <= IndexBufferSize /\ Len(bytes) >= 8 + data_len
             THEN IndexLoop(Drop(bytes, 8 + data_len), write_idx + 1,
                            [flash_index EXCEPT ![write_idx % count] =
                                [log_number |-> log_num,
                                 hash |-> HashOf(SubSeq(bytes, 9, 8 + data_len)),
                                 valid |-> TRUE]],
                            count)
             ELSE [flash_index |-> flash_index, write_idx |-> write_idx]

\* where the index loop starts: count * 85 bytes before the end of the file
StartPos(file_size, count) ==
    IF file_size > count * EstimatedEntryBytes
    THEN file_size - count * EstimatedEntryBytes ELSE 0

\* the comparison loop: the incoming entries that no valid slot among the
\* first flash_entries matches in log number and hash
IsDuplicate(incoming, flash_index, flash_entries) ==
    \E j \in 0 .. (flash_entries - 1) :
        /\ flash_index[j].valid
        /\ flash_index[j].log_number = incoming.log_number
        /\ flash_index[j].hash = HashOf(incoming.binary_data)

NewEntries(entries, flash_index, flash_entries) ==
    SelectSeq(entries, LAMBDA e : ~IsDuplicate(e, flash_index, flash_entries))

\* battery_fs_sync_from_ring: what it stores in *written_count is new_count
battery_fs_sync_from_ring(df, entries, fault) ==
    LET count == Len(entries)
        scan == IF df.exists
                THEN IndexLoop(Drop(df.bytes, StartPos(Len(df.bytes), count)), 0,
                               EmptyIndex(count), count)
                ELSE [flash_index |-> EmptyIndex(count), write_idx |-> 0]
        flash_entries == IF scan.write_idx < count THEN scan.write_idx ELSE count
        new_entries == NewEntries(entries, scan.flash_index, flash_entries)
        new_count == Len(new_entries)
    IN  IF new_count > 0
        THEN LET w == battery_fs_write_bulk(df, new_entries, fault)
             IN  [data |-> w.data, ret |-> w.ret, written |-> w.written,
                  fired |-> w.fired, new_entries |-> new_entries,
                  written_count |-> new_count]
        ELSE [data |-> df, ret |-> ESP_OK, written |-> <<>>, fired |-> FALSE,
              new_entries |-> <<>>, written_count |-> 0]

\* operations that only read the store
Queries == {"read_bulk", "read_data", "get_entry_count", "get_last_log"}

BulkWriteStep(op, entries, r, fault) ==
    /\ cycles < MaxBulkCalls
    /\ last.op \notin Queries
    /\ fault.kind /= "none" => faults < MaxFaults /\ r.fired
    /\ dataFile' = r.data
    /\ fileLog' = fileLog \o r.written
    /\ everAppended' = everAppended + Len(r.written)
    /\ last' = [NoCall EXCEPT !.op = op, !.logs = entries, !.fault = fault.kind,
                              !.ret = r.ret, !.preData = dataFile,
                              !.written = r.written]
    /\ prev' = last
    /\ cycles' = cycles + 1
    /\ faults' = faults + (IF fault.kind = "none" THEN 0 ELSE 1)
    /\ UNCHANGED <<metaFile, readOut, nandVars>>

BulkFaults == {[kind |-> "data_open", rec |-> 1, field |-> "index", k |-> 0]}
              \cup WriteFaults(MaxBulk)

WriteBulk ==
    \E entries \in BulkArrays :
        BulkWriteStep("write_bulk", entries,
                      battery_fs_write_bulk(dataFile, entries, NoFault), NoFault)

WriteBulkFault ==
    \E entries \in BulkArrays : \E fault \in BulkFaults :
        BulkWriteStep("write_bulk", entries,
                      battery_fs_write_bulk(dataFile, entries, fault), fault)

WriteOne ==
    \E entry \in {e \in BulkEntries : ~e.is_null} :
        BulkWriteStep("write_one", <<entry>>,
                      battery_fs_write_one(dataFile, entry, NoFault), NoFault)

\* a call of battery_fs_sync_from_ring; last.new_logs holds new_entries, whose
\* length is the stored written_count
SyncStep(entries, r, fault) ==
    /\ cycles < MaxBulkCalls
    /\ last.op \notin Queries
    /\ fault.kind /= "none" => faults < MaxFaults /\ r.fired
    /\ dataFile' = r.data
    /\ fileLog' = fileLog \o r.written
    /\ everAppended' = everAppended + Len(r.written)
    /\ last' = [NoCall EXCEPT !.op = "sync_from_ring", !.logs = entries,
                              !.fault = fault.kind, !.ret = r.ret,
                              !.preData = dataFile, !.written = r.written,
                              !.new_logs = r.new_entries]
    /\ prev' = last
    /\ cycles' = cycles + 1
    /\ faults' = faults + (IF fault.kind = "none" THEN 0 ELSE 1)
    /\ UNCHANGED <<metaFile, readOut, nandVars>>

SyncFromRing ==
    \E entries \in BulkArrays :
        SyncStep(entries, battery_fs_sync_from_ring(dataFile, entries, NoFault), NoFault)

SyncFromRingFault ==
    \E entries \in BulkArrays : \E fault \in BulkFaults :
        SyncStep(entries, battery_fs_sync_from_ring(dataFile, entries, fault), fault)

ReadBulk ==
    \E max_count \in 0..MaxReadCount : \E zeroIsNull \in BOOLEAN :
        /\ last.op \notin Queries
        /\ readOut' = battery_fs_read_bulk(dataFile, max_count, zeroIsNull)
        /\ last' = [NoCall EXCEPT !.op = "read_bulk", !.preData = dataFile]
        /\ prev' = last
        /\ UNCHANGED <<dataFile, metaFile, cycles, faults, everAppended, fileLog, nandVars>>

Query(op, result) ==
    /\ last.op \notin Queries
    /\ readOut' = result
    /\ last' = [NoCall EXCEPT !.op = op, !.preData = dataFile]
    /\ prev' = last
    /\ UNCHANGED <<dataFile, metaFile, cycles, faults, everAppended, fileLog, nandVars>>

ReadData ==
    \E more \in {0, MaxReadCount} :
        Query("read_data", battery_fs_read_data(dataFile, more))

GetEntryCount == Query("get_entry_count", battery_fs_get_entry_count(dataFile))

GetLastLog == Query("get_last_log", battery_fs_get_last_log(dataFile))

NextBulk ==
    \/ WriteBulk \/ WriteBulkFault \/ WriteOne
    \/ ReadBulk \/ ReadData \/ GetEntryCount \/ GetLastLog

SpecBulk == Init /\ [][NextBulk]_vars

\* the store under battery_fs_sync_from_ring and single writes
NextSync == SyncFromRing \/ SyncFromRingFault \/ WriteOne

SpecSync == Init /\ [][NextSync]_vars

\* C10: what battery_fs_read_bulk returns, with room for every stored
\* record, is the sequence of records written so far, each with the same
\* index, length and payload.
C10_RoundTrip ==
    ( /\ last.op = "read_bulk"
      /\ dataFile.exists
      /\ faults = 0
      /\ readOut.max_count >= Len(fileLog) )
    => readOut.ret = ESP_OK /\ readOut.entries = fileLog

\* the largest number of entries a stored stream can hold: stands for an
\* unbounded max_count and for a callback that always continues
Unbounded == Len(dataFile.bytes)
CompleteRecords == ScanRecords(dataFile.bytes)

\* C11: on every stored stream, battery_fs_read_bulk and battery_fs_read_data
\* deliver as many records as battery_fs_get_entry_count counts, and the last
\* record they deliver has the index battery_fs_get_last_log returns.
C11_SameScan ==
    (last.op = "get_entry_count" /\ readOut.ret = ESP_OK)
    => LET delivered == battery_fs_read_data(dataFile, Unbounded).entries
           bulk == battery_fs_read_bulk(dataFile, Unbounded, FALSE).entries
           tail == battery_fs_get_last_log(dataFile)
       IN  /\ Len(delivered) = readOut.count
           /\ Len(bulk) = readOut.count
           /\ delivered /= <<>> =>
                 /\ tail.ret = ESP_OK
                 /\ tail.last_log = delivered[Len(delivered)].memory_index

\* C12: battery_fs_get_last_log returns the index of the last complete record
\* (ESP_ERR_NOT_FOUND when there is no file or no complete record) and
\* battery_fs_get_entry_count returns the number of complete records.
C12_CompleteRecordsOnly ==
    /\ last.op = "get_last_log" =>
          IF ~dataFile.exists \/ CompleteRecords = <<>>
          THEN readOut.ret = ESP_ERR_NOT_FOUND
          ELSE /\ readOut.ret = ESP_OK
               /\ readOut.last_log = CompleteRecords[Len(CompleteRecords)].memory_index
    /\ (last.op = "get_entry_count" /\ dataFile.exists) =>
          readOut.ret = ESP_OK /\ readOut.count = Len(CompleteRecords)

(***************************************************************************)
(* A stored stream with a corrupt entry: a record whose payload fwrite     *)
(* failed, followed by later appends that are shorter than its length.     *)
(***************************************************************************)
\* longer than anything a later single append adds behind a cut payload
LongPayloadLen == 8 + MaxPayloadLen + MaxPartial + 1
LongPayload == [i \in 1..LongPayloadLen |-> Min(ByteVals)]
LongEntry == [log_number |-> Max(LogNumbers), is_null |-> FALSE, binary_data |-> LongPayload]

\* arrays whose last entry is the long one
LongArrays ==
    {<<LongEntry>>} \cup {<<e, LongEntry>> : e \in {b \in BulkEntries : ~b.is_null}}

PayloadFaults(entries) ==
    {f \in WriteFaults(MaxBulk) : f.field = "data" /\ f.rec = Len(entries)}

\* battery_fs_write_bulk whose fwrite of the last payload fails
WriteBulkCut ==
    \E entries \in LongArrays : \E fault \in PayloadFaults(entries) :
        BulkWriteStep("write_bulk", entries,
                      battery_fs_write_bulk(dataFile, entries, fault), fault)

NextCorrupt == WriteBulkCut \/ WriteOne \/ ReadBulk \/ ReadData

SpecCorrupt == Init /\ [][NextCorrupt]_vars

\* the bytes behind the complete records at the head of the stream
BehindComplete == Drop(dataFile.bytes, Len(EncodeLogs(CompleteRecords)))

\* the entry there has its header and a length above the bytes that remain
CorruptEntry ==
    /\ dataFile.exists
    /\ Len(BehindComplete) >= 8
    /\ FromLE32(SubSeq(BehindComplete, 5, 8)) > Len(BehindComplete) - 8

\* C31: a corrupt entry (a header whose length exceeds the bytes that
\* remain) ends the scan without failing it: battery_fs_read_bulk and
\* battery_fs_read_data return ESP_OK and deliver exactly the records that
\* precede the corrupt entry, in order.
C31_CorruptEntryEndsScan ==
    /\ ( /\ last.op = "read_bulk"
         /\ CorruptEntry
         /\ readOut.max_count >= Len(CompleteRecords) )
       => readOut.ret = ESP_OK /\ readOut.entries = CompleteRecords
    /\ ( /\ last.op = "read_data"
         /\ CorruptEntry
         /\ readOut.more >= Len(CompleteRecords) )
       => readOut.ret = ESP_OK /\ readOut.entries = CompleteRecords

\* the same for battery_fs_read_data alone, and for battery_fs_read_bulk
\* when no record before the corrupt entry has an empty payload
C31_ScanEndsAtCorruptEntry ==
    /\ ( /\ last.op = "read_bulk"
         /\ CorruptEntry
         /\ \A i \in 1..Len(CompleteRecords) : CompleteRecords[i].data /= <<>>
         /\ readOut.max_count >= Len(CompleteRecords) )
       => readOut.ret = ESP_OK /\ readOut.entries = CompleteRecords
    /\ ( /\ last.op = "read_data"
         /\ CorruptEntry
         /\ readOut.more >= Len(CompleteRecords) )
       => readOut.ret = ESP_OK /\ readOut.entries = CompleteRecords

\* a corrupt entry with records before it and bytes of a later append behind it
C31_MidStream ==
    /\ last.op \in {"read_bulk", "read_data"}
    /\ CorruptEntry
    /\ CompleteRecords /= <<>>
    /\ Len(BehindComplete) > 8
    /\ readOut.entries = CompleteRecords

\* the entries of the last battery_fs_write_bulk call, and the file before it
BulkBase == IF last.preData.exists THEN last.preData.bytes ELSE <<>>
BulkRecords(entries) ==
    [i \in 1..Len(entries) |-> AsRecord(entries[i])]
NonNull(entries) == SelectSeq(entries, LAMBDA e : ~e.is_null)

\* every entry of the array is in the file, complete, behind the old bytes
AllWritten ==
    /\ \A i \in 1..Len(last.logs) : ~last.logs[i].is_null
    /\ dataFile.exists
    /\ dataFile.bytes = BulkBase \o EncodeLogs(BulkRecords(last.logs))

\* the file ends inside entry i: the entries before i are complete, a
\* proper prefix of entry i follows, nothing of the entries after i
EndsInside(i) ==
    /\ ~last.logs[i].is_null
    /\ \E n \in 0 .. (Len(EncodeLogs(<<AsRecord(last.logs[i])>>)) - 1) :
          dataFile.bytes =
              BulkBase
              \o EncodeLogs(BulkRecords(NonNull(Take(last.logs, i - 1))))
              \o Take(EncodeLogs(<<AsRecord(last.logs[i])>>), n)

\* C32: battery_fs_write_bulk returns ESP_OK if and only if every one of the
\* count entries was written completely; when a write fails partway through
\* entry i it returns a failure, writes none of the entries after i and
\* keeps the entries and the partial bytes already written.
C32_BulkAllOrFailure ==
    last.op = "write_bulk" =>
        /\ last.ret = ESP_OK <=> AllWritten
        /\ last.fault = "data_write" =>
              /\ last.ret /= ESP_OK
              /\ \E i \in 1..Len(last.logs) : EndsInside(i)

\* a write that failed at its second entry, behind an existing file: the
\* first entry stays, with bytes of the second
C32_Witness ==
    /\ last.op = "write_bulk"
    /\ last.fault = "data_write"
    /\ last.ret = ESP_FAIL
    /\ last.preData.exists /\ last.preData.bytes /= <<>>
    /\ Len(last.written) = 1
    /\ Len(last.logs) = 2
    /\ EndsInside(2)
    /\ Len(dataFile.bytes) > Len(BulkBase \o EncodeLogs(last.written))

\* the file ends in bytes of a record whose write failed partway
TruncatedTail(df) ==
    /\ df.exists
    /\ df.bytes /= EncodeLogs(ScanRecords(df.bytes))

IsSuffix(s, t) == Len(s) <= Len(t) /\ Drop(t, Len(t) - Len(s)) = s

\* C34: after a write that failed partway through a record, the records
\* appended by a later successful write are returned by battery_fs_read_bulk
\* with their index and payload intact.
C34_AppendAfterTruncation ==
    ( /\ last.op = "read_bulk"
      /\ readOut.max_count = MaxReadCount
      /\ prev.op \in {"write_bulk", "write_one"}
      /\ prev.ret = ESP_OK
      /\ TruncatedTail(prev.preData) )
    => /\ readOut.ret = ESP_OK
       /\ IsSuffix(prev.written, readOut.entries)

(***************************************************************************)
(* SPI NAND driver: spiflash_read_page, spiflash_write_page,               *)
(* spiflash_erase_block over the status-polling primitives.                *)
(***************************************************************************)
ESP_ERR_TIMEOUT == "ESP_ERR_TIMEOUT"
SpiError == "spi_transmit_error"

\* status & mask
HasBit(status, mask) == (status \div mask) % 2 = 1

\* a busy time longer than any wait of the driver
StuckBusy == MaxBusyPolls + 1

RECURSIVE And(_, _)
And(a, b) ==
    IF a = 0 \/ b = 0 THEN 0
    ELSE ((a % 2) * (b % 2)) + 2 * And(a \div 2, b \div 2)

\* variant: the low address byte is left zero
AddrBytesNoLow(n) == << (n \div 65536) % 256, (n \div 256) % 256, 0 >>

\* the three address bytes of a command: (n >> 16) & 0xFF, (n >> 8) & 0xFF, n & 0xFF
AddrBytes(n) == << (n \div 65536) % 256, (n \div 256) % 256, n % 256 >>
PageOfAddr(b) == b[1] * 65536 + b[2] * 256 + b[3]

\* what the chip answers to a status read
StatusByte(d) ==
    (IF d.busy > 0 THEN SPIFLASH_STATUS_BUSY ELSE 0)
    + (IF d.wel THEN SPIFLASH_STATUS_WEL ELSE 0)
    + (IF d.pfail THEN SPIFLASH_STATUS_PFAIL ELSE 0)
    + (IF d.efail THEN SPIFLASH_STATUS_EFAIL ELSE 0)

BlockOf(page) == page \div SPIFLASH_PAGES_PER_BLOCK

\* the chip's reaction to one command.  env: whether the write-enable
\* latches, whether a program or erase succeeds, how long the chip is busy
DeviceApply(d, cmd, env) ==
    IF cmd.op = "READ_STATUS"
    THEN [d EXCEPT !.busy = IF d.busy \in 1..MaxBusyPolls THEN d.busy - 1 ELSE d.busy]
    ELSE IF d.busy > 0 THEN d
    ELSE IF cmd.op = "WRITE_ENABLE" THEN [d EXCEPT !.wel = env.latch]
    ELSE IF cmd.op = "WRITE_DISABLE" THEN [d EXCEPT !.wel = FALSE]
    ELSE IF cmd.op = "PAGE_READ"
    THEN IF PageOfAddr(cmd.addr) \in DevicePages
         THEN [d EXCEPT !.buffer = d.pages[PageOfAddr(cmd.addr)], !.busy = env.busy]
         ELSE d
    ELSE IF cmd.op = "READ_DATA" THEN d
    ELSE IF ~d.wel THEN d
    ELSE IF cmd.op = "PROGRAM_LOAD" THEN [d EXCEPT !.buffer = cmd.data]
    ELSE IF PageOfAddr(cmd.addr) \notin DevicePages THEN d
    ELSE IF cmd.op = "PROGRAM_EXECUTE"
    THEN IF env.outcome = "fail"
         THEN [d EXCEPT !.pfail = TRUE, !.wel = FALSE, !.busy = env.busy]
         ELSE [d EXCEPT !.pages[PageOfAddr(cmd.addr)] =
                            [i \in 1..ModelPageSize |->
                                And(d.pages[PageOfAddr(cmd.addr)][i], d.buffer[i])],
                        !.pfail = FALSE, !.wel = FALSE, !.busy = env.busy]
    ELSE IF cmd.op = "BLOCK_ERASE"
    THEN IF env.outcome = "fail"
         THEN [d EXCEPT !.efail = TRUE, !.wel = FALSE, !.busy = env.busy]
         ELSE [d EXCEPT !.pages = [p \in DevicePages |->
                                      IF BlockOf(p) = BlockOf(PageOfAddr(cmd.addr))
                                      THEN ErasedPage ELSE d.pages[p]],
                        !.efail = FALSE, !.wel = FALSE, !.busy = env.busy]
    ELSE d

DeviceAnswer(d, cmd) ==
    IF cmd.op = "READ_STATUS" THEN StatusByte(d)
    ELSE IF cmd.op = "READ_DATA" THEN d.buffer
    ELSE 0

Cmd(op) == [op |-> op, addr |-> <<0, 0, 0>>, data |-> <<>>]
AddrCmd(op, n) == [op |-> op, addr |-> AddrBytes(n), data |-> <<>>]

\* a call in progress: the chip, the bus transactions so far, the error
\* that ended it (ESP_OK while it runs), the last bytes received
StartRun(d) == [dev |-> d, bus |-> <<>>, ret |-> ESP_OK, rx |-> 0]

\* spi_device_polling_transmit: one bus transaction; the transaction number
\* env.busFailAt of the call fails without reaching the chip
Transmit(run, cmd, env) ==
    IF run.ret /= ESP_OK THEN run
    ELSE IF Len(run.bus) + 1 = env.busFailAt
    THEN [run EXCEPT !.ret = SpiError,
                     !.bus = Append(run.bus, [cmd |-> cmd, ok |-> FALSE, rx |-> 0])]
    ELSE [dev |-> DeviceApply(run.dev, cmd, env),
          bus |-> Append(run.bus, [cmd |-> cmd, ok |-> TRUE,
                                   rx |-> DeviceAnswer(run.dev, cmd)]),
          ret |-> ESP_OK,
          rx |-> DeviceAnswer(run.dev, cmd)]

spiflash_read_status(run, env) == Transmit(run, Cmd("READ_STATUS"), env)
spiflash_write_enable(run, env) == Transmit(run, Cmd("WRITE_ENABLE"), env)
spiflash_write_disable(run, env) == Transmit(run, Cmd("WRITE_DISABLE"), env)

Fail(run, code) == IF run.ret = ESP_OK THEN [run EXCEPT !.ret = code] ELSE run

\* spiflash_wait_ready inside a driver call: `budget` further polls fit
\* into the timeout
RECURSIVE WaitLoop(_, _, _)
WaitLoop(run, env, budget) ==
    LET r == spiflash_read_status(run, env)
    IN  IF r.ret /= ESP_OK THEN r
        ELSE IF ~HasBit(r.rx, SPIFLASH_STATUS_BUSY) THEN r
        ELSE IF budget = 0 THEN Fail(r, ESP_ERR_TIMEOUT)
        ELSE WaitLoop(r, env, budget - 1)

WaitReadyIn(run, env) == IF run.ret /= ESP_OK THEN run ELSE WaitLoop(run, env, MaxBusyPolls)

\* variant: the latch is read but not tested
ReadWelOnly(run, env) == spiflash_read_status(run, env)

spiflash_verify_wel(run, env) ==
    LET r == spiflash_read_status(run, env)
    IN  IF r.ret = ESP_OK /\ ~HasBit(r.rx, SPIFLASH_STATUS_WEL) THEN Fail(r, ESP_FAIL) ELSE r

\* variant: the status is read but the failure bit is not tested
ReadFailBitOnly(run, env, mask) == spiflash_read_status(run, env)

\* the status check after program / erase
CheckFailBit(run, env, mask) ==
    LET r == spiflash_read_status(run, env)
    IN  IF r.ret = ESP_OK /\ HasBit(r.rx, mask) THEN Fail(r, ESP_FAIL) ELSE r

\* variant: the status is read between program load and program execute
write_page_status_between(d, page_num, data, env) ==
    LET ready == WaitReadyIn(StartRun(d), env)
        enabled == spiflash_verify_wel(spiflash_write_enable(ready, env), env)
        loaded == Transmit(enabled, [op |-> "PROGRAM_LOAD", addr |-> <<0, 0, 0>>,
                                     data |-> data], env)
        executed == Transmit(spiflash_read_status(loaded, env),
                             AddrCmd("PROGRAM_EXECUTE", page_num), env)
        done == WaitReadyIn(executed, env)
        checked == IF done.ret /= ESP_OK THEN done
                   ELSE CheckFailBit(done, env, SPIFLASH_STATUS_PFAIL)
    IN  spiflash_write_disable(checked, env)

spiflash_write_page(d, page_num, data, env) ==
    LET ready == WaitReadyIn(StartRun(d), env)
        enabled == spiflash_verify_wel(spiflash_write_enable(ready, env), env)
        loaded == Transmit(enabled, [op |-> "PROGRAM_LOAD", addr |-> <<0, 0, 0>>,
                                     data |-> data], env)
        executed == Transmit(loaded, AddrCmd("PROGRAM_EXECUTE", page_num), env)
        done == WaitReadyIn(executed, env)
        checked == IF done.ret /= ESP_OK THEN done
                   ELSE CheckFailBit(done, env, SPIFLASH_STATUS_PFAIL)
    IN  spiflash_write_disable(checked, env)

\* variant: the block number is shifted by one bit less
BlockShiftShort(block_num) == block_num * (SPIFLASH_PAGES_PER_BLOCK \div 2)

\* variant: the block number is used as the page address
BlockAsPage(block_num) == block_num

BlockPageAddr(block_num) == block_num * SPIFLASH_PAGES_PER_BLOCK

spiflash_erase_block(d, block_num, env) ==
    LET ready == WaitReadyIn(StartRun(d), env)
        enabled == spiflash_verify_wel(spiflash_write_enable(ready, env), env)
        erased == Transmit(enabled, AddrCmd("BLOCK_ERASE", BlockPageAddr(block_num)), env)
        done == WaitReadyIn(erased, env)
        checked == IF done.ret /= ESP_OK THEN done
                   ELSE CheckFailBit(done, env, SPIFLASH_STATUS_EFAIL)
    IN  spiflash_write_disable(checked, env)

\* variant: the cache is read without waiting for the page load
read_page_without_wait(d, page_num, env) ==
    LET ready == WaitReadyIn(StartRun(d), env)
        loading == Transmit(ready, AddrCmd("PAGE_READ", page_num), env)
    IN  Transmit(loading, Cmd("READ_DATA"), env)

\* the caller's buffer is written only when the data transaction succeeds
spiflash_read_page(d, page_num, env) ==
    LET ready == WaitReadyIn(StartRun(d), env)
        loading == Transmit(ready, AddrCmd("PAGE_READ", page_num), env)
        loaded == WaitReadyIn(loading, env)
    IN  Transmit(loaded, Cmd("READ_DATA"), env)

\* environments of a call: the nominal ones, and one deviation at a time
NominalEnv == [busFailAt |-> 0, latch |-> TRUE, outcome |-> "ok", busy |-> 1]
Deviations ==
    {[NominalEnv EXCEPT !.busFailAt = k] : k \in 1..MaxTransactions}
    \cup {[NominalEnv EXCEPT !.latch = FALSE],
          [NominalEnv EXCEPT !.outcome = "fail"],
          [NominalEnv EXCEPT !.busy = StuckBusy],
          [NominalEnv EXCEPT !.busy = 0]}

TestPages == {0, SPIFLASH_PAGES_PER_BLOCK - 1, SPIFLASH_PAGES_PER_BLOCK}
TestBlocks == 0 .. (ModelBlocks - 1)
TestData ==
    {[i \in 1..ModelPageSize |-> IF i = 1 THEN 0 ELSE ErasedByte],
     [i \in 1..ModelPageSize |-> IF i = ModelPageSize THEN 0 ELSE ErasedByte]}

\* the caller's knowledge after a call: a successful erase makes the pages
\* of the block erased, a successful write of an erased page makes it
\* written, a failed erase or write leaves the pages concerned unknown
KnownAfter(known, op, arg, data, ret) ==
    IF op = "erase_block"
    THEN [p \in DevicePages |->
             IF p \div SPIFLASH_PAGES_PER_BLOCK /= arg THEN known[p]
             ELSE IF ret = ESP_OK THEN Erased ELSE Unknown]
    ELSE IF op = "write_page"
    THEN [known EXCEPT ![arg] = IF ret = ESP_OK /\ known[arg] = Erased
                                THEN Written(data) ELSE Unknown]
    ELSE known

\* a driver call with arguments of the given kind: "valid", or what is
\* wrong with them
NandCall(op, arg, data, r, env, args) ==
    /\ cycles < MaxNandCalls
    /\ env /= NominalEnv => faults < MaxFaults
    /\ dev' = r.dev
    /\ nand' = [op |-> op, arg |-> arg, data |-> data, ret |-> r.ret, bus |-> r.bus,
                out |-> IF op = "read_page" /\ r.ret = ESP_OK THEN r.rx ELSE <<>>,
                pre |-> dev, args |-> args,
                known |-> IF args = "valid"
                          THEN KnownAfter(nand.known, op, arg, data, r.ret)
                          ELSE nand.known,
                knownBefore |-> nand.known]
    /\ cycles' = cycles + 1
    /\ faults' = faults + (IF env = NominalEnv THEN 0 ELSE 1)
    /\ UNCHANGED <<dataFile, metaFile, everAppended, fileLog, last, prev, readOut, wait, fs, smbus>>

NandStep(op, arg, data, r, env) == NandCall(op, arg, data, r, env, "valid")

Envs == {NominalEnv} \cup Deviations

WritePage ==
    \E page_num \in TestPages : \E data \in TestData : \E env \in Envs :
        NandStep("write_page", page_num, data,
                 spiflash_write_page(dev, page_num, data, env), env)

EraseBlock ==
    \E block_num \in TestBlocks : \E env \in Envs :
        NandStep("erase_block", block_num, <<>>,
                 spiflash_erase_block(dev, block_num, env), env)

ReadPage ==
    \E page_num \in TestPages : \E env \in Envs :
        NandStep("read_page", page_num, <<>>,
                 spiflash_read_page(dev, page_num, env), env)

NextNand == WritePage \/ EraseBlock \/ ReadPage

SpecNand == Init /\ [][NextNand]_vars

(***************************************************************************)
(* Calls of the driver with arguments that are not valid.                  *)
(***************************************************************************)
ESP_ERR_INVALID_ARG == "ESP_ERR_INVALID_ARG"

\* the chip of the model has ModelBlocks blocks (SPIFLASH_TOTAL_BLOCKS)
FirstBlockOutside == ModelBlocks
FirstPageOutside == ModelBlocks * SPIFLASH_PAGES_PER_BLOCK

\* what can be wrong with the arguments of a call
BadArgs(op) ==
    IF op = "erase_block" THEN {"null_handle", "out_of_range"}
    ELSE {"null_handle", "null_buffer", "out_of_range"}

\* the argument test at the head of the three functions: handle == NULL,
\* and buffer == NULL / data == NULL where there is one
NullArgument(args) == args \in {"null_handle", "null_buffer"}

InvalidArg(d) == [StartRun(d) EXCEPT !.ret = ESP_ERR_INVALID_ARG]

\* the three functions from their argument test on
CheckedCall(d, op, arg, data, args, env) ==
    IF NullArgument(args) THEN InvalidArg(d)
    ELSE IF op = "write_page" THEN spiflash_write_page(d, arg, data, env)
    ELSE IF op = "erase_block" THEN spiflash_erase_block(d, arg, env)
    ELSE spiflash_read_page(d, arg, env)

\* the page or block number passed: a valid one beside a NULL pointer, the
\* first one outside the chip otherwise
ArgFor(op, args) ==
    IF args = "out_of_range"
    THEN (IF op = "erase_block" THEN FirstBlockOutside ELSE FirstPageOutside)
    ELSE 0

BadArgCall ==
    \E op \in {"write_page", "erase_block", "read_page"} : \E args \in BadArgs(op) :
      \E data \in TestData :
        /\ op /= "write_page" => data = <<0, ErasedByte>>
        /\ NandCall(op, ArgFor(op, args), IF op = "write_page" THEN data ELSE <<>>,
                    CheckedCall(dev, op, ArgFor(op, args), data, args, NominalEnv),
                    NominalEnv, args)

NextNandArgs == WritePage \/ EraseBlock \/ ReadPage \/ BadArgCall

SpecNandArgs == Init /\ [][NextNandArgs]_vars

\* C22: spiflash_read_page, spiflash_write_page and spiflash_erase_block
\* called with a null handle or buffer, or with a page or block number
\* outside the chip, return ESP_ERR_INVALID_ARG and issue no command.
C22_InvalidArguments ==
    nand.args /= "valid" => (nand.ret = ESP_ERR_INVALID_ARG /\ nand.bus = <<>>)

\* C22 for the null pointers alone
C22_NullArguments ==
    NullArgument(nand.args) =>
        (nand.ret = ESP_ERR_INVALID_ARG /\ nand.bus = <<>> /\ dev = nand.pre)


(***************************************************************************)
(* Properties of the NAND driver.                                          *)
(***************************************************************************)
Mutating == nand.op \in {"write_page", "erase_block"}
Bus == nand.bus
IsOp(i, op) == Bus[i].cmd.op = op
StatusShows(i, mask) == IsOp(i, "READ_STATUS") /\ Bus[i].ok /\ HasBit(Bus[i].rx, mask)
StatusLacks(i, mask) == IsOp(i, "READ_STATUS") /\ Bus[i].ok /\ ~HasBit(Bus[i].rx, mask)
ArrayCommands == {"PROGRAM_LOAD", "PROGRAM_EXECUTE", "BLOCK_ERASE"}

\* C13: a program-load, program-execute or block-erase command is issued
\* only after a status read, made after the write-enable command, showed WEL
\* set; when that status read shows WEL clear the call returns an error and
\* issues no further command.
C13_WelVerified ==
    Mutating =>
        /\ \A i \in 1..Len(Bus) :
              Bus[i].cmd.op \in ArrayCommands =>
                 \E k \in 1..(i - 1) : \E j \in (k + 1)..(i - 1) :
                    /\ IsOp(k, "WRITE_ENABLE") /\ Bus[k].ok
                    /\ StatusShows(j, SPIFLASH_STATUS_WEL)
        /\ \A j \in 2..Len(Bus) :
              (IsOp(j - 1, "WRITE_ENABLE") /\ StatusLacks(j, SPIFLASH_STATUS_WEL))
              => nand.ret /= ESP_OK /\ j = Len(Bus)
C13_Witness ==
    /\ nand.op = "write_page"
    /\ nand.ret = ESP_FAIL
    /\ Len(Bus) >= 2
    /\ IsOp(Len(Bus) - 1, "WRITE_ENABLE")
    /\ StatusLacks(Len(Bus), SPIFLASH_STATUS_WEL)

\* C14: a call returns ESP_OK only if, after the program-execute or
\* block-erase command, a status read showed the busy bit clear and the
\* status read after it showed the failure bit of the operation clear; when
\* that bit is set the call returns a failure.
FailMask == IF nand.op = "write_page" THEN SPIFLASH_STATUS_PFAIL ELSE SPIFLASH_STATUS_EFAIL
ArrayCommand == IF nand.op = "write_page" THEN "PROGRAM_EXECUTE" ELSE "BLOCK_ERASE"
C14_CompletionChecked ==
    Mutating =>
        /\ nand.ret = ESP_OK =>
              \E i \in 1..Len(Bus) : \E j \in (i + 1)..(Len(Bus) - 1) :
                 /\ IsOp(i, ArrayCommand) /\ Bus[i].ok
                 /\ StatusLacks(j, SPIFLASH_STATUS_BUSY)
                 /\ StatusLacks(j + 1, FailMask)
        /\ \A i \in 1..Len(Bus) : \A j \in (i + 1)..(Len(Bus) - 1) :
              ( /\ IsOp(i, ArrayCommand)
                /\ StatusLacks(j, SPIFLASH_STATUS_BUSY)
                /\ StatusShows(j + 1, FailMask) )
              => nand.ret = ESP_FAIL
C14_Witness ==
    /\ nand.op = "erase_block"
    /\ nand.ret = ESP_FAIL
    /\ \E i \in 1..Len(Bus) : IsOp(i, "BLOCK_ERASE") /\ Bus[i].ok
    /\ StatusShows(Len(Bus), SPIFLASH_STATUS_EFAIL)
    /\ StatusLacks(Len(Bus) - 1, SPIFLASH_STATUS_BUSY)

SuccessfulRead == nand.op = "read_page" /\ nand.ret = ESP_OK

\* C15: after a successful erase of its block, a page programmed once with a
\* pattern by a successful spiflash_write_page reads back as that pattern,
\* whichever other pages of the block were programmed in between.
C15_ProgramReadFidelity ==
    (SuccessfulRead /\ nand.knownBefore[nand.arg].st = "written")
    => nand.out = nand.knownBefore[nand.arg].data
C15_Witness ==
    /\ SuccessfulRead
    /\ nand.arg = 0
    /\ nand.knownBefore[0].st = "written"
    /\ nand.knownBefore[SPIFLASH_PAGES_PER_BLOCK - 1].st = "written"
    /\ nand.knownBefore[0].data /= nand.knownBefore[SPIFLASH_PAGES_PER_BLOCK - 1].data

\* C16: after a successful spiflash_erase_block, every page of the block
\* holds and reads back as all 0xFF, whatever was programmed there before.
C16_EraseBeforeWrite ==
    /\ (nand.op = "erase_block" /\ nand.ret = ESP_OK) =>
          \A p \in DevicePages :
             BlockOf(p) = nand.arg => dev.pages[p] = ErasedPage
    /\ (SuccessfulRead /\ nand.knownBefore[nand.arg] = Erased) => nand.out = ErasedPage
C16_Witness ==
    /\ nand.op = "erase_block"
    /\ nand.ret = ESP_OK
    /\ \E p \in DevicePages : BlockOf(p) = nand.arg /\ nand.pre.pages[p] /= ErasedPage

\* the bus transactions from i to j are all status reads
OnlyStatusReads(i, j) == \A k \in i..j : IsOp(k, "READ_STATUS")

\* C28: in spiflash_write_page the program-execute command for the target
\* page is the very next bus transaction after the program-load transaction;
\* when the load transaction fails no execute is issued.
C28_ExecuteFollowsLoad ==
    nand.op = "write_page" =>
        /\ \A i \in 1..Len(Bus) :
              (IsOp(i, "PROGRAM_LOAD") /\ Bus[i].ok) =>
                 /\ i < Len(Bus)
                 /\ IsOp(i + 1, "PROGRAM_EXECUTE")
                 /\ PageOfAddr(Bus[i + 1].cmd.addr) = nand.arg
        /\ \A i \in 1..Len(Bus) :
              (IsOp(i, "PROGRAM_LOAD") /\ ~Bus[i].ok) =>
                 (i = Len(Bus) /\ nand.ret /= ESP_OK)
        /\ \A i \in 1..Len(Bus) :
              IsOp(i, "PROGRAM_EXECUTE") => (i > 1 /\ IsOp(i - 1, "PROGRAM_LOAD"))
C28_Witness ==
    /\ nand.op = "write_page"
    /\ nand.ret = SpiError
    /\ Len(Bus) >= 1
    /\ IsOp(Len(Bus), "PROGRAM_LOAD")
    /\ ~Bus[Len(Bus)].ok

\* C29: spiflash_read_page issues wait-ready, page-load(page), wait-ready,
\* cache-read in that order; the cache read follows a status read, made
\* after the page load, that showed the device not busy; when a wait times
\* out the call returns ESP_ERR_TIMEOUT, issues no cache read and leaves the
\* caller's buffer alone.
C29_ReadPageOrder ==
    nand.op = "read_page" =>
        /\ \A i \in 1..Len(Bus) :
              Bus[i].cmd.op \in {"READ_STATUS", "PAGE_READ", "READ_DATA"}
        /\ \A j \in 1..Len(Bus) :
              IsOp(j, "PAGE_READ") =>
                 /\ j > 1
                 /\ OnlyStatusReads(1, j - 1)
                 /\ StatusLacks(j - 1, SPIFLASH_STATUS_BUSY)
                 /\ PageOfAddr(Bus[j].cmd.addr) = nand.arg
        /\ \A i \in 1..Len(Bus) :
              IsOp(i, "READ_DATA") =>
                 /\ i = Len(Bus)
                 /\ StatusLacks(i - 1, SPIFLASH_STATUS_BUSY)
                 /\ \E j \in 1..(i - 2) :
                       /\ IsOp(j, "PAGE_READ") /\ Bus[j].ok
                       /\ OnlyStatusReads(j + 1, i - 1)
        /\ (Len(Bus) >= 1 /\ StatusShows(Len(Bus), SPIFLASH_STATUS_BUSY))
              => nand.ret = ESP_ERR_TIMEOUT
        /\ nand.ret = ESP_ERR_TIMEOUT =>
              /\ \A i \in 1..Len(Bus) : ~IsOp(i, "READ_DATA")
              /\ nand.out = <<>>
        /\ nand.ret = ESP_OK => (Len(Bus) >= 1 /\ IsOp(Len(Bus), "READ_DATA"))
C29_Witness ==
    /\ nand.op = "read_page"
    /\ nand.ret = ESP_ERR_TIMEOUT
    /\ \E j \in 1..Len(Bus) : IsOp(j, "PAGE_READ") /\ Bus[j].ok
    /\ nand.out = <<>>

\* C30: spiflash_erase_block(block_num) sends the block-erase command with
\* the page address block_num * 64 in its three address bytes, for every
\* block of the chip; a successful erase erases exactly the pages
\* block_num*64 .. block_num*64+63 and changes no page of another block.
C30_EraseAddress ==
    (nand.op = "erase_block" /\ nand.ret = ESP_OK) =>
        /\ \E i \in 1..Len(Bus) :
              /\ IsOp(i, "BLOCK_ERASE")
              /\ PageOfAddr(Bus[i].cmd.addr) = nand.arg * SPIFLASH_PAGES_PER_BLOCK
        /\ \A b \in 0 .. (SPIFLASH_TOTAL_BLOCKS - 1) :
              PageOfAddr(AddrBytes(BlockPageAddr(b))) = b * SPIFLASH_PAGES_PER_BLOCK
        /\ \A p \in DevicePages :
              dev.pages[p] =
                 IF p \in (nand.arg * SPIFLASH_PAGES_PER_BLOCK)
                          .. (nand.arg * SPIFLASH_PAGES_PER_BLOCK
                              + SPIFLASH_PAGES_PER_BLOCK - 1)
                 THEN ErasedPage ELSE nand.pre.pages[p]
C30_Witness ==
    /\ nand.op = "erase_block" /\ nand.ret = ESP_OK /\ nand.arg = 1
    /\ nand.pre.pages[0] /= ErasedPage
    /\ nand.pre.pages[SPIFLASH_PAGES_PER_BLOCK] /= ErasedPage
    /\ dev.pages[0] = nand.pre.pages[0]
    /\ dev.pages[SPIFLASH_PAGES_PER_BLOCK] = ErasedPage

\* a repeated call: battery_fs_sync_from_ring after a successful
\* battery_fs_sync_from_ring with the same array, no fault in either
RepeatedSync ==
    /\ last.op = "sync_from_ring" /\ prev.op = "sync_from_ring"
    /\ last.logs = prev.logs
    /\ prev.ret = ESP_OK
    /\ prev.fault = "none" /\ last.fault = "none"

\* C19: battery_fs_sync_from_ring called again with the same array of
\* entries writes zero entries, whatever the number of entries and the
\* payload lengths.
C19_RepeatedSyncWritesNothing ==
    RepeatedSync => (last.new_logs = <<>> /\ last.written = <<>> /\ dataFile = last.preData)

\* the case of C19: a repeated call that found every entry in the file
C19_Witness ==
    /\ RepeatedSync
    /\ Len(last.logs) = MaxBulk
    /\ last.new_logs = <<>>

\* C19 for arrays whose payloads all hold at least one byte
C19_NonEmptyPayloads ==
    (RepeatedSync /\ \A i \in 1..Len(last.logs) : last.logs[i].binary_data /= <<>>)
        => (last.new_logs = <<>> /\ last.written = <<>> /\ dataFile = last.preData)

\* C20: the written_count stored by battery_fs_sync_from_ring is the number
\* of entries the call wrote to the file, also when the bulk write fails
\* partway or cannot open the file.
C20_WrittenCountIsWritten ==
    last.op = "sync_from_ring" => Len(last.new_logs) = Len(last.written)

\* the case of C20: the bulk write inside the call failed
C20_Witness ==
    /\ last.op = "sync_from_ring"
    /\ last.ret = ESP_FAIL
    /\ last.new_logs /= <<>>

\* C20 for calls whose bulk write succeeds
C20_WhenWriteSucceeds ==
    (last.op = "sync_from_ring" /\ last.ret = ESP_OK)
        => Len(last.new_logs) = Len(last.written)

\* the last n records of a sequence (all of them when it holds fewer)
LastN(s, n) == IF Len(s) > n THEN Drop(s, Len(s) - n) ELSE s

\* the complete records of the file before the call that the incoming
\* entries are to be compared with
ComparedRecords == LastN(StoredRecords(last.preData), Len(last.logs))

\* a stored record with the entry's log number and payload CRC-32
StoredAlready(e) ==
    \E i \in 1..Len(ComparedRecords) :
        /\ ComparedRecords[i].memory_index = e.log_number
        /\ HashOf(ComparedRecords[i].data) = HashOf(e.binary_data)

\* C33: battery_fs_sync_from_ring writes an incoming entry if and only if
\* none of the last N complete records of the file (N the number of incoming
\* entries) has its log number and the CRC-32 of its payload, for every
\* payload length; the entries written keep their order.
C33_WritesExactlyTheNew ==
    (last.op = "sync_from_ring" /\ last.fault = "none")
        => last.written =
              BulkRecords(SelectSeq(last.logs, LAMBDA e : ~StoredAlready(e)))

\* C33 when every stored record and every incoming entry has a payload of
\* at least one byte
C33_NonEmptyPayloads ==
    ( /\ last.op = "sync_from_ring" /\ last.fault = "none"
      /\ \A i \in 1..Len(last.logs) : last.logs[i].binary_data /= <<>>
      /\ \A i \in 1..Len(StoredRecords(last.preData)) :
             StoredRecords(last.preData)[i].data /= <<>> )
        => last.written =
              BulkRecords(SelectSeq(last.logs, LAMBDA e : ~StoredAlready(e)))

(***************************************************************************)
(* spiflash_wait_ready step by step against the tick counter               *)
(* (spiflash.c 167-193).  uint32_t is scaled to the words 0 .. WordMod-1;  *)
(* the tick counter, the subtraction and the product with                  *)
(* portTICK_PERIOD_MS wrap at WordMod as they wrap at 2^32 in the build.   *)
(* `elapsed` is the true number of ticks since the call, kept beside the   *)
(* wrapping counter so that the deadline can be stated.                    *)
(***************************************************************************)

Word(n) == n % WordMod

\* the true tick count is followed up to here and then held
MaxElapsed == 2 * WordMod + 2

\* portTICK_PERIOD_MS of the build: 1 kHz ticks, or slower ticks
TickPeriods == {1, SlowTickPeriod}

\* pdMS_TO_TICKS(1) under a tick period: one tick at 1 kHz, zero when slower
pdMS_TO_TICKS_1(period) == 1 \div period

\* timeouts a caller passes, the largest uint32_t among them
Timeouts == {0, ShortTimeout, WordMod - 1}

\* line 186: (xTaskGetTickCount() - start) * portTICK_PERIOD_MS > timeout_ms
TimedOut(w) == Word(Word(w.tick - w.start) * w.period) > w.timeout_ms

\* a code position of the running call has been executed
Stepped(w) == [w EXCEPT !.sinceStep = 0]

\* line 172: the call starts; the device is busy for busyLeft more status
\* reads, or for ever
WaitCall ==
    /\ wait.pc = "idle"
    /\ \E t \in Timeouts, period \in TickPeriods, start \in {0, WordMod - 1},
          busy \in 0 .. MaxBusyPolls, stuck \in BOOLEAN, fails \in BOOLEAN :
          wait' = [NoWait EXCEPT !.pc = "read", !.timeout_ms = t,
                                 !.period = period, !.start = start,
                                 !.tick = start, !.busyLeft = busy,
                                 !.stuck = stuck, !.lineFails = fails]
    /\ UNCHANGED <<storeVars, dev, nand, fs, smbus>>

\* lines 176-184: one status read, the transport error and the busy test;
\* on a line that fails a read may fail or pass
WaitReadStatus ==
    /\ wait.pc = "read"
    /\ \/ /\ wait.lineFails
          /\ wait' = Stepped([wait EXCEPT !.pc = "done", !.readRet = SpiError,
                                          !.ret = SpiError])
       \/ /\ wait.stuck \/ wait.busyLeft > 0
          /\ wait' = Stepped([wait EXCEPT !.pc = "check", !.readRet = ESP_OK,
                                          !.status = SPIFLASH_STATUS_BUSY,
                                          !.busyLeft = IF wait.stuck THEN @ ELSE @ - 1])
       \/ /\ ~wait.stuck /\ wait.busyLeft = 0
          /\ wait' = Stepped([wait EXCEPT !.pc = "done", !.readRet = ESP_OK,
                                          !.status = 0, !.ret = ESP_OK])
    /\ UNCHANGED <<storeVars, dev, nand, fs, smbus>>

\* lines 186-189: the deadline test
WaitCheckTimeout ==
    /\ wait.pc = "check"
    /\ wait' = IF TimedOut(wait)
               THEN Stepped([wait EXCEPT !.pc = "done", !.ret = ESP_ERR_TIMEOUT])
               ELSE Stepped([wait EXCEPT !.pc = "delay",
                                         !.delayLeft = pdMS_TO_TICKS_1(wait.period),
                                         !.lastPass = wait.elapsed,
                                         !.prevCheck = wait.elapsed])
    /\ UNCHANGED <<storeVars, dev, nand, fs, smbus>>

\* line 191: vTaskDelay returns once its ticks have passed
WaitDelay ==
    /\ wait.pc = "delay"
    /\ wait.delayLeft = 0
    /\ wait' = Stepped([wait EXCEPT !.pc = "read"])
    /\ UNCHANGED <<storeVars, dev, nand, fs, smbus>>

\* the tick interrupt; the running task is held up for at most MaxStall ticks
\* between two of its positions
Tick ==
    /\ wait.pc \in {"read", "check", "delay"}
    /\ wait.sinceStep < MaxStall
    /\ wait' = [wait EXCEPT !.tick = Word(@ + 1),
                            !.elapsed = IF @ < MaxElapsed THEN @ + 1 ELSE @,
                            !.sinceStep = @ + 1,
                            !.delayLeft = IF @ > 0 THEN @ - 1 ELSE 0]
    /\ UNCHANGED <<storeVars, dev, nand, fs, smbus>>

\* the call has returned; the caller goes on
WaitReturn ==
    /\ wait.pc = "done"
    /\ wait' = NoWait
    /\ UNCHANGED <<storeVars, dev, nand, fs, smbus>>

WaitStep == WaitReadStatus \/ WaitCheckTimeout \/ WaitDelay

NextWait == WaitCall \/ WaitReadStatus \/ WaitCheckTimeout \/ WaitDelay \/ Tick \/ WaitReturn

SpecWait == Init /\ [][NextWait]_vars

\* the task in spiflash_wait_ready is scheduled again and the tick counter
\* keeps advancing
SpecWaitFair == SpecWait /\ WF_vars(WaitStep) /\ WF_vars(Tick)

\* the deadline of the running call, in milliseconds since it started
ElapsedMs(ticks) == ticks * wait.period

\* C17: on a device that never clears the busy bit spiflash_wait_ready
\* returns ESP_ERR_TIMEOUT no earlier than timeout_ms after the call and no
\* later than one poll interval after that deadline: no deadline test lets
\* the call go on once the deadline is past, and the return lies within the
\* time since the previous test.
C17_TimeoutWindow ==
    (wait.stuck /\ ~wait.lineFails) =>
        /\ wait.lastPass >= 0 => ElapsedMs(wait.lastPass) <= wait.timeout_ms
        /\ wait.ret = ESP_ERR_TIMEOUT =>
              /\ ElapsedMs(wait.elapsed) >= wait.timeout_ms
              /\ ElapsedMs(wait.elapsed) - wait.timeout_ms
                    <= ElapsedMs(wait.elapsed - wait.prevCheck)

\* the case of C17: a stuck device has timed the call out after a deadline
\* test that let it go on
C17_Witness ==
    /\ wait.stuck /\ ~wait.lineFails
    /\ wait.ret = ESP_ERR_TIMEOUT
    /\ wait.lastPass >= 0

\* the window of C17 for the timeouts whose deadline test cannot wrap
C17_WindowWithoutWrap ==
    (wait.timeout_ms + 3 * MaxStall * wait.period < WordMod) => C17_TimeoutWindow

\* C18: spiflash_wait_ready always terminates provided the tick counter
\* keeps advancing: every running call reaches its return.
C18_Terminates == (wait.pc = "read") ~> (wait.pc = "done")

\* termination for the timeouts whose deadline test cannot wrap
C18_TerminatesWithoutWrap ==
    (wait.pc = "read" /\ wait.timeout_ms + 3 * MaxStall * wait.period < WordMod)
        ~> (wait.pc = "done")

\* the returns of C18: ESP_OK exactly on a status read with the busy bit
\* clear, the transport error exactly on a failed read, ESP_ERR_TIMEOUT only
\* after a read that showed the busy bit
C18_Returns ==
    wait.pc = "done" =>
        /\ wait.ret = ESP_OK <=>
              (wait.readRet = ESP_OK /\ ~HasBit(wait.status, SPIFLASH_STATUS_BUSY))
        /\ wait.ret = SpiError <=> wait.readRet = SpiError
        /\ wait.ret = ESP_ERR_TIMEOUT <=>
              (wait.readRet = ESP_OK /\ HasBit(wait.status, SPIFLASH_STATUS_BUSY))

\* the case of C18: a call on a stuck device is running past its deadline
C18_Witness ==
    /\ wait.pc \in {"read", "check", "delay"}
    /\ wait.stuck /\ ~wait.lineFails
    /\ ElapsedMs(wait.elapsed) > wait.timeout_ms + ElapsedMs(MaxStall)


(***************************************************************************)
(* battery_fs_init and battery_fs_deinit (spiflash.c 1220-1329).  The      *)
(* record fs holds g_fs_state.initialized and, for the SPI bus, the SPI    *)
(* device, the NAND device and the mount, whether each is acquired.        *)
(***************************************************************************)
ESP_ERR_INVALID_STATE == "ESP_ERR_INVALID_STATE"
DriverError == "driver_error"

\* the steps of battery_fs_init that can fail: spi_bus_initialize,
\* spi_bus_add_device, spi_nand_flash_init_device, esp_vfs_fat_nand_mount
InitSteps == 1..4

\* spi_bus_initialize: a host that is already initialized is refused
spi_bus_initialize(f, failAt) ==
    IF f.bus THEN ESP_ERR_INVALID_STATE
    ELSE IF failAt = 1 THEN DriverError
    ELSE ESP_OK

battery_fs_init(f, config_null, failAt) ==
    IF config_null THEN [f EXCEPT !.ret = ESP_ERR_INVALID_ARG]
    ELSE IF f.initialized THEN [f EXCEPT !.ret = ESP_OK]
    ELSE IF spi_bus_initialize(f, failAt) /= ESP_OK
    THEN [f EXCEPT !.ret = spi_bus_initialize(f, failAt)]
    ELSE IF failAt = 2
    THEN [f EXCEPT !.bus = FALSE, !.ret = DriverError]
    ELSE IF failAt = 3
    THEN [f EXCEPT !.spi_handle = FALSE, !.bus = FALSE, !.ret = DriverError]
    ELSE IF failAt = 4
    THEN [f EXCEPT !.flash_handle = FALSE, !.spi_handle = FALSE, !.bus = FALSE,
                   !.ret = DriverError]
    ELSE [f EXCEPT !.bus = TRUE, !.spi_handle = TRUE, !.flash_handle = TRUE,
                   !.mounted = TRUE, !.mounts = @ + 1, !.initialized = TRUE,
                   !.ret = ESP_OK]

\* unmount, spi_nand_flash_deinit_device, spi_bus_remove_device; the bus is
\* not touched
battery_fs_deinit(f) ==
    IF ~f.initialized THEN [f EXCEPT !.ret = ESP_OK]
    ELSE [f EXCEPT !.mounted = FALSE, !.flash_handle = FALSE, !.spi_handle = FALSE,
                   !.initialized = FALSE, !.ret = ESP_OK]

Called(f, op, failAt) ==
    [f EXCEPT !.op = op, !.failAt = failAt, !.wasInitialized = fs.initialized,
              !.mountsBefore = fs.mounts,
              !.history = Append(fs.history, <<op, f.ret>>)]

FsInit ==
    /\ Len(fs.history) < MaxLifecycleCalls
    /\ \E config_null \in BOOLEAN : \E failAt \in {0} \cup InitSteps :
          /\ config_null => failAt = 0
          /\ fs' = Called(battery_fs_init(fs, config_null, failAt),
                          IF config_null THEN "init_null" ELSE "init", failAt)
    /\ UNCHANGED <<storeVars, dev, nand, wait, smbus>>

FsDeinit ==
    /\ Len(fs.history) < MaxLifecycleCalls
    /\ fs' = Called(battery_fs_deinit(fs), "deinit", 0)
    /\ UNCHANGED <<storeVars, dev, nand, wait, smbus>>

NextLifecycle == FsInit \/ FsDeinit

SpecLifecycle == Init /\ [][NextLifecycle]_vars

\* every resource battery_fs_init acquires is released
AllReleased == ~fs.mounted /\ ~fs.flash_handle /\ ~fs.spi_handle /\ ~fs.bus

\* C23: after battery_fs_init succeeded and battery_fs_deinit returned, the
\* mount, the NAND device, the SPI device and the SPI bus are released, and
\* a following battery_fs_init whose driver calls do not fail succeeds.
C23_DeinitReleases ==
    /\ (fs.op = "deinit" /\ fs.wasInitialized) => AllReleased
    /\ (fs.op = "init" /\ fs.failAt = 0) => fs.ret = ESP_OK

\* C23 without the bus: the mount, the NAND device and the SPI device are
\* released by battery_fs_deinit
C23_AllButBusReleased ==
    (fs.op = "deinit" /\ fs.wasInitialized)
        => (~fs.mounted /\ ~fs.flash_handle /\ ~fs.spi_handle /\ ~fs.initialized)

\* a failed battery_fs_init keeps nothing it acquired
C23_FailedInitReleases ==
    (fs.op = "init" /\ fs.ret = DriverError /\ ~fs.wasInitialized
        /\ \A i \in 1..Len(fs.history) : fs.history[i][1] /= "deinit")
        => AllReleased


(***************************************************************************)
(* The operations on a serial against the initialized flag: every one     *)
(* tests g_fs_state.initialized before anything else (spiflash.c 1336,     *)
(* 1348, 1383, 1507, 1646, 1691).                                          *)
(***************************************************************************)
SerialOps ==
    {"read_metadata", "write_metadata", "write_data", "delete_battery",
     "delete_all", "exists"}

\* variant: no operation is refused
NeverRefused(f) == FALSE

NotInitialized(f) == ~f.initialized

\* battery_fs_delete_all: every file of the mount point is removed
battery_fs_delete_all(df, mf) ==
    [data |-> [exists |-> FALSE, bytes |-> <<>>], meta |-> NoMetaFile, ret |-> ESP_OK]

\* what the caller hands in: a one-record snapshot, a metadata record
GuardedSnapshots == {s \in Snapshots : Len(s) = 1 /\ s[1].data = <<Min(ByteVals)>>}
SomeMeta == [ZeroMeta EXCEPT !.last_memory_index = WrapGuard, !.record_count = 1]

\* the operation behind its state test
OpResult(op, df, mf, logs, now) ==
    IF op = "write_data"
    THEN LET r == battery_fs_write_data(df, mf, logs, NoFault, now)
         IN  [data |-> r.data, meta |-> r.meta, ret |-> r.ret]
    ELSE IF op = "write_metadata"
    THEN LET w == battery_fs_write_metadata(mf, SomeMeta, "none")
         IN  [data |-> df, meta |-> w.file, ret |-> w.ret]
    ELSE IF op = "read_metadata"
    THEN [data |-> df, meta |-> mf, ret |-> battery_fs_read_metadata(mf, FALSE).ret]
    ELSE IF op = "delete_battery"
    THEN LET d == battery_fs_delete_battery(df, mf, "none")
         IN  [data |-> d.data, meta |-> d.meta, ret |-> d.ret]
    ELSE IF op = "delete_all" THEN battery_fs_delete_all(df, mf)
    ELSE [data |-> df, meta |-> mf, ret |-> battery_fs_exists(df)]

Refusal(op) == IF op = "exists" THEN FALSE ELSE ESP_ERR_INVALID_STATE

GuardedResult(f, op, df, mf, logs, now) ==
    IF NotInitialized(f)
    THEN [data |-> df, meta |-> mf, ret |-> Refusal(op)]
    ELSE OpResult(op, df, mf, logs, now)

SerialCall ==
    \E op \in SerialOps : \E logs \in GuardedSnapshots :
        /\ cycles < MaxCycles
        /\ op /= "write_data" => logs = CHOOSE s \in GuardedSnapshots : TRUE
        /\ LET r == GuardedResult(fs, op, dataFile, metaFile, logs, cycles + 1)
           IN  /\ dataFile' = r.data
               /\ metaFile' = r.meta
               /\ last' = [NoCall EXCEPT !.op = op, !.logs = logs, !.ret = r.ret,
                                         !.preData = dataFile, !.preMeta = metaFile]
        /\ cycles' = cycles + 1
        /\ UNCHANGED <<prev, faults, everAppended, fileLog, readOut, nandVars>>

\* battery_fs_init and battery_fs_deinit between the operations
LifecycleCall(f, op, failAt) ==
    /\ Len(fs.history) < MaxLifecycleCalls
    /\ fs' = Called(f, op, failAt)
    /\ last' = [NoCall EXCEPT !.op = op]
    /\ UNCHANGED <<dataFile, metaFile, prev, cycles, faults, everAppended, fileLog,
                   readOut, dev, nand, wait, smbus>>

GuardedInit ==
    \E config_null \in BOOLEAN : \E failAt \in {0} \cup InitSteps :
        /\ config_null => failAt = 0
        /\ LifecycleCall(battery_fs_init(fs, config_null, failAt),
                         IF config_null THEN "init_null" ELSE "init", failAt)

GuardedDeinit == LifecycleCall(battery_fs_deinit(fs), "deinit", 0)

NextGuarded == SerialCall \/ GuardedInit \/ GuardedDeinit

SpecGuarded == Init /\ [][NextGuarded]_vars

\* the last call was an operation on a serial, made while not initialized
CalledUninitialized == last.op \in SerialOps /\ ~fs.initialized

RefusedAndUntouched ==
    /\ last.ret = Refusal(last.op)
    /\ dataFile = last.preData
    /\ metaFile = last.preMeta

\* C38 as stated: every operation on a serial called before battery_fs_init
\* succeeded or after battery_fs_deinit returns ESP_ERR_INVALID_STATE
\* (battery_fs_exists: false) and touches no file; every battery_fs_init
\* called while initialized returns ESP_OK without mounting again.
C38_AsStated ==
    /\ CalledUninitialized => RefusedAndUntouched
    /\ (fs.op \in {"init", "init_null"} /\ fs.wasInitialized)
          => (fs.ret = ESP_OK /\ fs.mounts = fs.mountsBefore)

\* C38, amended: the same, where battery_fs_init called while initialized
\* returns ESP_OK when its config is not NULL and ESP_ERR_INVALID_ARG when it
\* is NULL, without mounting again in either case.
C38_GuardedByInitialized ==
    /\ CalledUninitialized => RefusedAndUntouched
    /\ (fs.op \in {"init", "init_null"} /\ fs.wasInitialized)
          => /\ fs.ret = (IF fs.op = "init" THEN ESP_OK ELSE ESP_ERR_INVALID_ARG)
             /\ fs.mounts = fs.mountsBefore
             /\ fs.initialized /\ fs.mounted

\* an operation refused after battery_fs_deinit while the serial has files
C38_Witness ==
    /\ CalledUninitialized
    /\ last.op = "delete_battery"
    /\ fs.op = "deinit" /\ fs.wasInitialized
    /\ dataFile.exists /\ metaFile.state = "ok"
    /\ RefusedAndUntouched

(***************************************************************************)
(* SMBUS_update (DataAcquisition.c 156-191): every second the loop polls   *)
(* each BATMON device with BATMON_getSOC and reads its log when the device *)
(* has just answered.  outcomes keeps the results of the polls of a device *)
(* so that its connections can be counted from them.                       *)
(***************************************************************************)
\* variant: every poll that succeeds counts as a new connection
AnsweredNow(currently_connected, is_connected) == currently_connected

\* line 174: the device answers and was not connected
JustConnected(currently_connected, is_connected) ==
    currently_connected /\ ~is_connected

\* line 182: the device does not answer and was connected
JustDisconnected(currently_connected, is_connected) ==
    ~currently_connected /\ is_connected

\* one pass of the body of the for loop, for device s.i
PollBody(s, currently_connected) ==
    LET d == s.i
        polled == [s EXCEPT !.outcomes[d] = Append(@, currently_connected),
                            !.i = (d + 1) % ModelBatmons,
                            !.round = IF d + 1 = ModelBatmons THEN @ + 1 ELSE @]
    IN  IF JustConnected(currently_connected, s.is_connected[d])
        THEN [polled EXCEPT !.log_calls[d] = @ + 1, !.is_connected[d] = TRUE]
        ELSE IF JustDisconnected(currently_connected, s.is_connected[d])
        THEN [polled EXCEPT !.is_connected[d] = FALSE]
        ELSE polled

\* BATMON_getSOC returns ESP_OK or an error
PollBatmon ==
    \E ret \in {ESP_OK, ESP_FAIL} :
        /\ smbus.round < MaxPollRounds
        /\ smbus' = PollBody(smbus, ret = ESP_OK)
        /\ UNCHANGED <<storeVars, dev, nand, wait, fs>>

NextSmbus == PollBatmon

SpecSmbus == Init /\ [][NextSmbus]_vars

\* the polls of a device that succeeded right after a failed one, or as the
\* first poll: its transitions from disconnected to connected
RECURSIVE Connections(_, _)
Connections(outcomes, before) ==
    IF outcomes = <<>> THEN 0
    ELSE (IF Head(outcomes) /\ ~before THEN 1 ELSE 0)
         + Connections(Tail(outcomes), Head(outcomes))

\* C39: for each BATMON device get_battery_log is called exactly once per
\* transition from disconnected to connected and never while the device
\* stays connected; after every poll is_connected is the outcome of that
\* poll.
C39_LogOncePerConnection ==
    \A d \in Batmons :
        /\ smbus.log_calls[d] = Connections(smbus.outcomes[d], FALSE)
        /\ smbus.outcomes[d] /= <<>> =>
              smbus.is_connected[d] = smbus.outcomes[d][Len(smbus.outcomes[d])]

\* one device connected, lost and connected again; another that stayed
\* connected over all its polls
C39_Witness ==
    \E d, e \in Batmons :
        /\ smbus.outcomes[d] = <<TRUE, FALSE, TRUE>>
        /\ smbus.log_calls[d] = 2
        /\ smbus.outcomes[e] = <<TRUE, TRUE, TRUE>>
        /\ smbus.log_calls[e] = 1

====
